---- MODULE Spec2Model ----
(***************************************************************************)
(* TradeStack "Python fetch data": the scripts that synchronise a QuestDB  *)
(* table of daily OHLCV bars with a market-data provider.                  *)
(*                                                                         *)
(* Dates are whole days counted from 2000-01-01 (day 0).  A ticker is the  *)
(* sequence of its characters, so that the '^' prefix handling of the      *)
(* writers is computed and not assumed.  A DataFrame is the sequence of    *)
(* its rows.  NaN stands for a missing (null) cell.                        *)
(*                                                                         *)
(* Each script is one specification over the shared variables; the         *)
(* variables of the scripts that do not run stay at their idle values.     *)
(***************************************************************************)
EXTENDS Integers, Sequences, FiniteSets, Bags, TLC

VARIABLES
    store,            \* rows of the table the script reads and writes
    calls,            \* provider calls issued so far: [ticker, start, end]
    writer_input,     \* rows handed to the script's writer so far
    m_pc,             \* main.py: position of the run
    last_timestamps,  \* main.py: dict ticker -> MAX(time)
    end_date,         \* main.py: END_DATE, the as-of date
    batch_size,       \* main.py: fetch_and_ingest_data(batch_size)
    batch_num,        \* main.py: index of the batch being processed
    idx,              \* main.py: index of the ticker inside the batch
    batch_data,       \* main.py: dict ticker -> non-empty DataFrame
    attempts,         \* main.py: provider attempts made per ticker
    outage,           \* main.py: failing attempts the provider gives a ticker
    fetch_failed,     \* main.py: tickers with "Error fetching" logged
    run,              \* fill.py: the number of the run of the script
    run_start_store,  \* fill.py: the table as the run found it
    inserted,         \* fill.py: the rows the run has sent to the table
    f_pc,             \* fill.py: position of the run
    today,            \* fill.py: the day of the run, the provider's last bar
    db_attempts,      \* fill.py: attempts of fetch_tickers_from_db so far
    tickers_with_dates, \* fill.py: [(ticker, start date)]
    f_batch_size,     \* fill.py: process_in_batches(batch_size)
    f_i,              \* fill.py: loop variable i of process_in_batches
    ticker_chunks,    \* fill.py: the groups of the batch being fetched
    pending,          \* fill.py: groups submitted and not yet completed
    chunk_data,       \* fill.py: all_data of fetch_historical_data_parallel
    all_data,         \* fill.py: all_data of process_in_batches
    batches_processed, \* fill.py: batches that returned data
    chunk_failed,     \* fill.py: groups with "Failed to fetch chunk" logged
    combined_data,    \* fill.py: what process_in_batches returned
    q_pc,             \* quality.py: position of the run
    trading,          \* quality.py: the days the provider has bars for
    db_data,          \* quality.py: dict ticker -> {'dates': set}
    q_k,              \* quality.py: index of the ticker being analysed
    q_missing,        \* quality.py: missing_dates of that ticker
    q_chunks,         \* quality.py: date_chunks of that ticker
    q_c,              \* quality.py: index of the chunk being fetched
    analysed,         \* quality.py: tickers whose analysis was completed
    q_raised,         \* quality.py: the exception that ended the run
    q_slept,          \* quality.py: the last statement run was time.sleep
    p_pc,             \* worker pool alone: position
    p_script,         \* worker pool alone: the script whose pool it is
    p_batch,          \* worker pool alone: the batch handed to the pool
    max_workers,      \* worker pool alone: the cap of the executor
    p_tasks,          \* worker pool alone: the tasks submitted, not started
    p_running,        \* worker pool alone: requests in flight of each busy worker
    n_pc,              \* normalisation alone: position
    time_column,       \* normalisation alone: the 'time' column handed over
    normalized,        \* normalisation alone: the column returned
    pb_pc,             \* process_in_batches alone: position
    batch_count,       \* process_in_batches alone: number of batches of the run
    pb_i,              \* process_in_batches alone: batches visited
    with_data,         \* process_in_batches alone: the batches whose fetch returned rows
    pb_all_data,       \* process_in_batches alone: all_data
    pb_batches_processed, \* process_in_batches alone: batches_processed
    insert_calls,      \* process_in_batches alone: the calls of insert_into_questdb
    log,               \* process_in_batches alone: the messages logged
    returned,          \* process_in_batches alone: the frame returned
    cal_pc,            \* holiday calendar alone: position
    cal_end,           \* holiday calendar alone: end_date, in days since start_date
    market_holidays,   \* holiday calendar alone: the holidays the market calendar knows
    closed_days,       \* holiday calendar alone: the sorted closed days of the range
    table_data,        \* holiday calendar alone: the rows built so far
    col_pc,            \* collection alone: position of the collecting thread
    col_script,        \* collection alone: which function collects
    col_tasks,         \* collection alone: number of fetches submitted
    futures,           \* collection alone: the state of each future
    fetched,           \* collection alone: the frame each finished fetch returned
    results,           \* collection alone: the dict of process_batch
    col_all_data,      \* collection alone: the list of fetch_historical_data_parallel
    mutators,          \* collection alone: the threads that changed the accumulator
    ms_pc,             \* missing-ticker backfill alone: position
    ms_run,            \* missing-ticker backfill alone: which run of the script this is
    stock_data2,       \* missing-ticker backfill alone: the symbols with rows in the table
    sp500_tickers,     \* missing-ticker backfill alone: the tickers wanted
    existing_tickers,  \* missing-ticker backfill alone: the symbols read from the table
    missing_tickers,   \* missing-ticker backfill alone: the missing set computed
    ms_pending,        \* missing-ticker backfill alone: the missing tickers not yet processed
    ms_calls,          \* missing-ticker backfill alone: the tickers asked of the provider this run
    ms_complete,       \* missing-ticker backfill alone: every missing ticker so far fetched and inserted
    prev_complete,     \* missing-ticker backfill alone: ms_complete of the run before
    lp_pc,             \* loops of fetch_and_ingest_data alone: position
    ticker_count,      \* loops alone: number of tickers of the universe
    lp_batch_size,     \* loops alone: batch_size
    lp_batch_num,      \* loops alone: batch_num
    lp_idx,            \* loops alone: position of the ticker in its batch
    lp_batch_data,     \* loops alone: the tickers of the batch that returned rows
    visited,           \* loops alone: the tickers fetched or skipped, in order
    skipped,           \* loops alone: the tickers skipped
    batches_visited,   \* loops alone: the batches ended, in order
    s_pc,             \* scheduling alone: position
    s_pairs,          \* scheduling alone: the input tickers_with_dates
    direct_chunks,    \* scheduling alone: the groups of one call
    batched_chunks,   \* scheduling alone: the groups of all batches, in order
    c_pc,             \* date chunking alone: position
    missing_dates,    \* date chunking alone: the sorted missing dates
    date_chunks,      \* date chunking alone: the chunks cut from them
    v_pc,             \* validation alone: position
    raw_df,           \* validation alone: the frame the provider delivered
    cleaned,          \* validation alone: what fetch-stocks.py's validator returned
    cleaned_missing   \* validation alone: what fetch_missing_stocks.py's returned

mainVars == <<m_pc, last_timestamps, end_date, batch_size, batch_num, idx,
              batch_data, attempts, outage, fetch_failed>>
fillVars == <<f_pc, today, db_attempts, tickers_with_dates, f_batch_size, f_i,
              ticker_chunks, pending, chunk_data, all_data, batches_processed,
              chunk_failed, combined_data,
             run, run_start_store, inserted>>
qualVars == <<q_pc, trading, db_data, q_k, q_missing, q_chunks, q_c, analysed,
              q_raised, q_slept>>
poolVars == <<p_pc, p_script, p_batch, max_workers, p_tasks, p_running>>
normVars == <<n_pc, time_column, normalized>>
batchVars == <<pb_pc, batch_count, pb_i, with_data, pb_all_data,
               pb_batches_processed, insert_calls, log, returned>>
calVars == <<cal_pc, cal_end, market_holidays, closed_days, table_data>>
collectVars == <<col_pc, col_script, col_tasks, futures, fetched, results,
                 col_all_data, mutators>>
missVars == <<ms_pc, ms_run, stock_data2, sp500_tickers, existing_tickers,
              missing_tickers, ms_pending, ms_calls, ms_complete,
              prev_complete>>
loopVars == <<lp_pc, ticker_count, lp_batch_size, lp_batch_num, lp_idx,
              lp_batch_data, visited, skipped, batches_visited>>
schedVars == <<s_pc, s_pairs, direct_chunks, batched_chunks>>
chunkVars == <<c_pc, missing_dates, date_chunks>>
validVars == <<v_pc, raw_df, cleaned, cleaned_missing>>
envVars == <<store, calls, writer_input>>
vars == <<envVars, mainVars, fillVars, qualVars, poolVars, schedVars,
          chunkVars, validVars, normVars, batchVars, calVars, collectVars,
          missVars, loopVars>>

\* what a script leaves alone: the variables of the other scripts
notMain == <<fillVars, qualVars, poolVars, schedVars, chunkVars, validVars,
             normVars, batchVars, calVars, collectVars, missVars, loopVars>>
notFill == <<mainVars, qualVars, poolVars, schedVars, chunkVars, validVars,
             normVars, batchVars, calVars, collectVars, missVars, loopVars>>
notQual == <<mainVars, fillVars, poolVars, schedVars, chunkVars, validVars,
             normVars, batchVars, calVars, collectVars, missVars, loopVars>>
notPool == <<envVars, mainVars, fillVars, qualVars, schedVars, chunkVars,
             validVars, normVars, batchVars, calVars, collectVars, missVars,
             loopVars>>
notSched == <<envVars, mainVars, fillVars, qualVars, poolVars, chunkVars,
              validVars, normVars, batchVars, calVars, collectVars, missVars,
              loopVars>>
notChunk == <<envVars, mainVars, fillVars, qualVars, poolVars, schedVars,
              validVars, normVars, batchVars, calVars, collectVars, missVars,
              loopVars>>
notValid == <<envVars, mainVars, fillVars, qualVars, poolVars, schedVars,
              chunkVars, normVars, batchVars, calVars, collectVars, missVars,
              loopVars>>
notNorm == <<envVars, mainVars, fillVars, qualVars, poolVars, schedVars,
             chunkVars, validVars, batchVars, calVars, collectVars, missVars,
             loopVars>>
notBatch == <<envVars, mainVars, fillVars, qualVars, poolVars, schedVars,
              chunkVars, validVars, normVars, calVars, collectVars, missVars,
              loopVars>>
notCal == <<envVars, mainVars, fillVars, qualVars, poolVars, schedVars,
            chunkVars, validVars, normVars, batchVars, collectVars, missVars,
            loopVars>>
notCollect == <<envVars, mainVars, fillVars, qualVars, poolVars, schedVars,
                chunkVars, validVars, normVars, batchVars, calVars, missVars,
                loopVars>>
notMiss == <<envVars, mainVars, fillVars, qualVars, poolVars, schedVars,
             chunkVars, validVars, normVars, batchVars, calVars, collectVars,
             loopVars>>
notLoop == <<envVars, mainVars, fillVars, qualVars, poolVars, schedVars,
             chunkVars, validVars, normVars, batchVars, calVars, collectVars,
             missVars>>

-----------------------------------------------------------------------------
(* Bounds of the model *)

MaxDate == 3
MaxRunCount == 2
MaxBatchSize == 2

Dates == 0..MaxDate

-----------------------------------------------------------------------------
(* Values shared by the scripts *)

\* NaN, the missing cell: a value apart from every number a bar can hold.
\* A comparison with NaN is false, as in pandas.
NaN == 0 - 999

Lt(a, b) == a # NaN /\ b # NaN /\ a < b

Gt(a, b) == a # NaN /\ b # NaN /\ a > b

Min(a, b) == IF a <= b THEN a ELSE b

Max(S) == CHOOSE x \in S : \A y \in S : y <= x

Range(s) == {s[i] : i \in DOMAIN s}

EmptyDict == [x \in {} |-> 0]

\* get_sp500_tickers: the universe always holds the index ticker '^VIX'
\* beside plain symbols.
Universe == {<<"A">>, <<"^", "V">>}

\* list(tickers): one iteration order of the set.
tickers_list == <<(<<"A">>), (<<"^", "V">>)>>

\* ticker.replace('^', '') if ticker.startswith('^') else ticker
StorageKey(ticker) ==
    IF Len(ticker) > 0 /\ ticker[1] = "^"
    THEN SelectSeq(ticker, LAMBDA c : c # "^")
    ELSE ticker

StorageKeys == {StorageKey(t) : t \in Universe}

\* A provider bar and the malformed bars a provider can deliver.
OkBar(d) ==
    [Date |-> d, Open |-> 100, High |-> 110, Low |-> 95, Close |-> 105,
     Volume |-> 1000]

BarKinds == {"ok", "null_open", "null_volume", "inverted", "neg_volume"}

Bar(d, kind) ==
    CASE kind = "ok" -> OkBar(d)
      [] kind = "null_open" -> [OkBar(d) EXCEPT !.Open = NaN]
      [] kind = "null_volume" -> [OkBar(d) EXCEPT !.Volume = NaN]
      [] kind = "inverted" -> [OkBar(d) EXCEPT !.Low = 105, !.High = 100]
      [] kind = "neg_volume" -> [OkBar(d) EXCEPT !.Volume = 0 - 1]

\* yf.Ticker(t).history(start, end, interval='1d'): the frames the provider
\* can answer with: nothing, or one bar per day of [start, end), of which
\* at most one is malformed.
History(start, end) ==
    LET days == {d \in Dates : start <= d /\ d < end}
        n == Cardinality(days)
        first == IF days = {} THEN 0 ELSE CHOOSE d \in days : \A e \in days : d <= e
    IN  {<<>>} \cup
        IF n = 0 THEN {}
        ELSE {[i \in 1..n |-> Bar(first + i - 1, IF i = b THEN k ELSE "ok")] :
                  b \in 1..n, k \in BarKinds}

\* A row of the table.
StoreRow(symbol, bar) ==
    [time |-> bar.Date, ticker |-> symbol, open |-> bar.Open,
     high |-> bar.High, low |-> bar.Low, close |-> bar.Close,
     volume |-> bar.Volume]

\* A row as the writer receives it: the provider's bar under its ticker.
WriterRow(ticker, bar) == [ticker |-> ticker, bar |-> bar]

-----------------------------------------------------------------------------
(* Idle values of the scripts that do not run *)

FillIdle ==
    /\ run = 1
    /\ run_start_store = {}
    /\ inserted = {}
    /\ f_pc = "idle"
    /\ today = 0
    /\ db_attempts = 0
    /\ tickers_with_dates = <<>>
    /\ f_batch_size = 1
    /\ f_i = 0
    /\ ticker_chunks = <<>>
    /\ pending = {}
    /\ chunk_data = <<>>
    /\ all_data = <<>>
    /\ batches_processed = 0
    /\ chunk_failed = {}
    /\ combined_data = <<>>

QualIdle ==
    /\ q_pc = "idle"
    /\ trading = {}
    /\ db_data = EmptyDict
    /\ q_k = 1
    /\ q_missing = <<>>
    /\ q_chunks = <<>>
    /\ q_c = 1
    /\ analysed = {}
    /\ q_raised = "none"
    /\ q_slept = FALSE

PoolIdle ==
    /\ p_pc = "idle"
    /\ p_script = "none"
    /\ p_batch = <<>>
    /\ max_workers = 1
    /\ p_tasks = <<>>
    /\ p_running = EmptyBag

NormIdle ==
    /\ n_pc = "idle"
    /\ time_column = <<>>
    /\ normalized = <<>>

BatchIdle ==
    /\ pb_pc = "idle"
    /\ batch_count = 0
    /\ pb_i = 0
    /\ with_data = {}
    /\ pb_all_data = <<>>
    /\ pb_batches_processed = 0
    /\ insert_calls = <<>>
    /\ log = <<>>
    /\ returned = <<>>

CalIdle ==
    /\ cal_pc = "idle"
    /\ cal_end = 0
    /\ market_holidays = {}
    /\ closed_days = <<>>
    /\ table_data = <<>>

CollectIdle ==
    /\ col_pc = "idle"
    /\ col_script = "none"
    /\ col_tasks = 0
    /\ futures = <<>>
    /\ fetched = <<>>
    /\ results = EmptyDict
    /\ col_all_data = <<>>
    /\ mutators = {}

MissIdle ==
    /\ ms_pc = "idle"
    /\ ms_run = 1
    /\ stock_data2 = {}
    /\ sp500_tickers = {}
    /\ existing_tickers = {}
    /\ missing_tickers = {}
    /\ ms_pending = {}
    /\ ms_calls = {}
    /\ ms_complete = TRUE
    /\ prev_complete = FALSE

LoopIdle ==
    /\ lp_pc = "idle"
    /\ ticker_count = 0
    /\ lp_batch_size = 1
    /\ lp_batch_num = 1
    /\ lp_idx = 1
    /\ lp_batch_data = {}
    /\ visited = <<>>
    /\ skipped = {}
    /\ batches_visited = <<>>

SchedIdle ==
    /\ s_pc = "idle"
    /\ s_pairs = <<>>
    /\ direct_chunks = <<>>
    /\ batched_chunks = <<>>

ChunkIdle ==
    /\ c_pc = "idle"
    /\ missing_dates = <<>>
    /\ date_chunks = <<>>

ValidIdle ==
    /\ v_pc = {"idle"}
    /\ raw_df = <<>>
    /\ cleaned = <<>>
    /\ cleaned_missing = <<>>

EnvIdle ==
    /\ store = {}
    /\ calls = {}
    /\ writer_input = {}

-----------------------------------------------------------------------------
(* main.py: fetch_and_ingest_data over get_last_timestamps *)

\* datetime(2000, 1, 1), the start of a ticker without a last timestamp
DEFAULT_START == 0

\* SELECT ticker, MAX(time) FROM stock_data GROUP BY ticker
LastTimes(table) ==
    [k \in {r.ticker : r \in table} |->
        Max({r.time : r \in {q \in table : q.ticker = k}})]

\* batches = [tickers_list[i:i + batch_size] for i in range(0, len, batch_size)]
Batches(list, size) ==
    [k \in 1..((Len(list) + size - 1) \div size) |->
        SubSeq(list, (k - 1) * size + 1, Min(k * size, Len(list)))]

main_batches == Batches(tickers_list, batch_size)

\* last_timestamps.get(ticker, datetime(2000, 1, 1))
StartDate(ticker) ==
    IF ticker \in DOMAIN last_timestamps
    THEN last_timestamps[ticker]
    ELSE DEFAULT_START

\* start_date + timedelta(days=1), the start of the provider request
RequestStart(ticker) == StartDate(ticker) + 1

\* if start_date < end_date
NeedsFetch(ticker) == StartDate(ticker) < end_date

\* The stored rows of the existing history the run starts from: each
\* storage key is absent or has a last row on some day.
InitialTables ==
    {{StoreRow(k, OkBar(f[k])) : k \in {x \in StorageKeys : f[x] >= 0}} :
        f \in [StorageKeys -> {0 - 1} \cup Dates]}

\* the variables of main.py while another script runs
MainIdle ==
    /\ m_pc = "idle"
    /\ last_timestamps = EmptyDict
    /\ end_date = 0
    /\ batch_size = 1
    /\ batch_num = 1
    /\ idx = 1
    /\ batch_data = EmptyDict
    /\ attempts = EmptyDict
    /\ outage = EmptyDict
    /\ fetch_failed = {}

MainInit ==
    /\ LoopIdle
    /\ MissIdle
    /\ CollectIdle
    /\ CalIdle
    /\ BatchIdle
    /\ NormIdle
    /\ FillIdle /\ QualIdle /\ PoolIdle /\ SchedIdle /\ ChunkIdle /\ ValidIdle
    /\ store \in InitialTables
    /\ calls = {}
    /\ writer_input = {}
    /\ m_pc = "start"
    /\ last_timestamps = EmptyDict
    /\ end_date \in Dates
    /\ batch_size \in 1..MaxBatchSize
    /\ batch_num = 1
    /\ idx = 1
    /\ batch_data = EmptyDict
    /\ attempts = [t \in Universe |-> 0]
    /\ outage = [t \in Universe |-> 0]
    /\ fetch_failed = {}

\* get_last_timestamps, the query answered
GetLastTimestamps ==
    /\ m_pc = "start"
    /\ last_timestamps' = LastTimes(store)
    /\ m_pc' = "fetch"
    /\ UNCHANGED notMain
    /\ UNCHANGED <<envVars, end_date, batch_size, batch_num, idx, batch_data,
                   attempts, outage, fetch_failed>>

\* get_last_timestamps, the connection or the query raising: returns {}
GetLastTimestampsError ==
    /\ m_pc = "start"
    /\ last_timestamps' = EmptyDict
    /\ m_pc' = "fetch"
    /\ UNCHANGED notMain
    /\ UNCHANGED <<envVars, end_date, batch_size, batch_num, idx, batch_data,
                   attempts, outage, fetch_failed>>

current_ticker == main_batches[batch_num][idx]

\* the loop "for ticker in batch" moving to the next ticker, or to the
\* ingestion of the batch after its last ticker
AdvanceTicker ==
    IF idx < Len(main_batches[batch_num])
    THEN idx' = idx + 1 /\ m_pc' = "fetch"
    ELSE idx' = 1 /\ m_pc' = "ingest"

\* a ticker with start_date >= end_date: no fetch
SkipTicker ==
    /\ m_pc = "fetch"
    /\ ~NeedsFetch(current_ticker)
    /\ AdvanceTicker
    /\ UNCHANGED notMain
    /\ UNCHANGED <<envVars, last_timestamps, end_date, batch_size, batch_num,
                   batch_data, attempts, outage, fetch_failed>>

\* stop_after_attempt(3): the attempts a retried call is given
RETRY_ATTEMPTS == 3

\* fetch_ticker_data, the provider answering: an empty frame is dropped,
\* any other is kept in batch_data
FetchTicker ==
    /\ m_pc = "fetch"
    /\ NeedsFetch(current_ticker)
    /\ \E df \in History(RequestStart(current_ticker), end_date) :
          /\ batch_data' =
                IF df = <<>> THEN batch_data
                ELSE [t \in DOMAIN batch_data \cup {current_ticker} |->
                         IF t = current_ticker THEN df ELSE batch_data[t]]
    /\ calls' = calls \cup {[ticker |-> current_ticker,
                              start |-> RequestStart(current_ticker),
                              end |-> end_date]}
    /\ attempts' = [attempts EXCEPT ![current_ticker] = @ + 1]
    /\ AdvanceTicker
    /\ UNCHANGED notMain
    /\ UNCHANGED <<store, writer_input, last_timestamps, end_date, batch_size,
                   batch_num, outage, fetch_failed>>

\* fetch_ticker_data, the provider raising (a timeout, a network error) on
\* the first k attempts it is given: the first exception is caught, logged
\* and answered with an empty frame
FetchTickerError ==
    /\ m_pc = "fetch"
    /\ NeedsFetch(current_ticker)
    /\ \E k \in 1..RETRY_ATTEMPTS : outage' = [outage EXCEPT ![current_ticker] = k]
    /\ calls' = calls \cup {[ticker |-> current_ticker,
                              start |-> RequestStart(current_ticker),
                              end |-> end_date]}
    /\ attempts' = [attempts EXCEPT ![current_ticker] = @ + 1]
    /\ fetch_failed' = fetch_failed \cup {current_ticker}
    /\ AdvanceTicker
    /\ UNCHANGED notMain
    /\ UNCHANGED <<store, writer_input, last_timestamps, end_date, batch_size,
                   batch_num, batch_data>>

\* every (ticker, row) of batch_data: what ingest_batch_data is handed
BatchRows(data) ==
    UNION {{WriterRow(t, data[t][i]) : i \in DOMAIN data[t]} : t \in DOMAIN data}

\* int(row['Volume']) raises on a NaN volume and the row is skipped;
\* float() of a NaN price does not raise
Convertible(bar) == bar.Volume # NaN

\* the INSERT of one row: the key is the ticker without its '^' prefix
InsertedRow(w) == StoreRow(StorageKey(w.ticker), w.bar)

\* the loop "for batch_num, batch in enumerate(batches, 1)" moving on after
\* time.sleep(1)
AdvanceBatch ==
    /\ batch_data' = EmptyDict
    /\ IF batch_num < Len(main_batches)
       THEN batch_num' = batch_num + 1 /\ m_pc' = "fetch"
       ELSE batch_num' = batch_num /\ m_pc' = "done"

\* ingest_batch_data on a non-empty batch_data: every row is converted and
\* inserted, a row whose conversion or INSERT raises is skipped
IngestBatch ==
    /\ m_pc = "ingest"
    /\ batch_data # EmptyDict
    /\ writer_input' = writer_input \cup BatchRows(batch_data)
    /\ \E rejected \in {{}} \cup {{w} : w \in BatchRows(batch_data)} :
          store' = store \cup
              {InsertedRow(w) : w \in {x \in BatchRows(batch_data) \ rejected :
                                          Convertible(x.bar)}}
    /\ AdvanceBatch
    /\ UNCHANGED notMain
    /\ UNCHANGED <<calls, last_timestamps, end_date, batch_size, idx,
                   attempts, outage, fetch_failed>>

\* ingest_batch_data, psycopg2.connect raising: caught, nothing is written
IngestBatchConnectError ==
    /\ m_pc = "ingest"
    /\ batch_data # EmptyDict
    /\ writer_input' = writer_input \cup BatchRows(batch_data)
    /\ AdvanceBatch
    /\ UNCHANGED notMain
    /\ UNCHANGED <<store, calls, last_timestamps, end_date, batch_size, idx,
                   attempts, outage, fetch_failed>>

\* the branch taken as an error that ends the run (C17)
NoNewDataAborts ==
    /\ m_pc = "ingest"
    /\ batch_data = EmptyDict
    /\ m_pc' = "done"
    /\ UNCHANGED notMain
    /\ UNCHANGED <<envVars, last_timestamps, end_date, batch_size, batch_num,
                   idx, batch_data, attempts, outage, fetch_failed>>

\* "No new data to ingest for batch": batch_data is empty
NoNewData ==
    /\ m_pc = "ingest"
    /\ batch_data = EmptyDict
    /\ AdvanceBatch
    /\ UNCHANGED notMain
    /\ UNCHANGED <<envVars, last_timestamps, end_date, batch_size, idx,
                   attempts, outage, fetch_failed>>

MainNext ==
    \/ GetLastTimestamps
    \/ GetLastTimestampsError
    \/ SkipTicker
    \/ FetchTicker
    \/ FetchTickerError
    \/ IngestBatch
    \/ IngestBatchConnectError
    \/ NoNewData

SpecMain == MainInit /\ [][MainNext]_vars

-----------------------------------------------------------------------------
(* fill.py: main over process_in_batches and fetch_historical_data_parallel *)

\* chunk_size = 50, the cap of a ticker group
CHUNK_SIZE == 50

\* current_start_date = None
NoDate == 0 - 1000

\* the condition without its start-date test (C5), and with a cap that
\* lets one ticker too many in (C6)
JoinsChunkAnyDate(start_date, current_start_date, current_chunk) ==
    Len(current_chunk) < CHUNK_SIZE

JoinsChunkLateCap(start_date, current_start_date, current_chunk) ==
    start_date = current_start_date /\ Len(current_chunk) <= CHUNK_SIZE

\* if start_date == current_start_date and len(current_chunk) < chunk_size
JoinsChunk(start_date, current_start_date, current_chunk) ==
    start_date = current_start_date /\ Len(current_chunk) < CHUNK_SIZE

\* the state of the grouping loop before its first pair
GroupStart ==
    [ticker_chunks |-> <<>>, current_chunk |-> <<>>,
     current_start_date |-> NoDate]

\* one pass of the body of "for ticker, start_date in tickers_with_dates"
GroupStep(st, pair) ==
    LET ticker == pair[1]
        start_date == pair[2]
        csd == IF st.current_start_date = NoDate THEN start_date
               ELSE st.current_start_date
    IN  IF JoinsChunk(start_date, csd, st.current_chunk)
        THEN [ticker_chunks |-> st.ticker_chunks,
              current_chunk |-> Append(st.current_chunk, ticker),
              current_start_date |-> csd]
        ELSE [ticker_chunks |->
                  IF st.current_chunk # <<>>
                  THEN Append(st.ticker_chunks, <<st.current_chunk, csd>>)
                  ELSE st.ticker_chunks,
              current_chunk |-> <<ticker>>,
              current_start_date |-> start_date]

\* the loop over the pairs lo..hi, in order, from the loop state st.  The
\* range is halved, and the state after the first half is a value before
\* the second half starts, so that long lists are evaluated at a small depth
RECURSIVE GroupLoop(_, _, _, _)
GroupLoop(list, lo, hi, st) ==
    IF lo > hi THEN st
    ELSE IF lo = hi THEN GroupStep(st, list[lo])
    ELSE LET mid == (lo + hi) \div 2
         IN  CHOOSE after \in
                 {GroupLoop(list, mid + 1, hi, left) :
                      left \in {GroupLoop(list, lo, mid, st)}} : TRUE

\* the groups the loop closed, without the group still open after it (C26)
TickerChunksClosedOnly(list) ==
    GroupLoop(list, 1, Len(list), GroupStart).ticker_chunks

\* ticker_chunks of fetch_historical_data_parallel(tickers_with_dates):
\* the loop, then the append of the group still open
TickerChunks(list) ==
    LET st == GroupLoop(list, 1, Len(list), GroupStart)
    IN  IF st.current_chunk # <<>>
        THEN Append(st.ticker_chunks, <<st.current_chunk, st.current_start_date>>)
        ELSE st.ticker_chunks

\* tickers_with_dates[i:i + batch_size]
Slice(list, i, size) == SubSeq(list, i + 1, Min(i + size, Len(list)))

\* pd.concat of a list of frames
RECURSIVE Concat(_)
Concat(frames) ==
    IF frames = <<>> THEN <<>> ELSE Head(frames) \o Concat(Tail(frames))

\* handle_nan_values: a missing volume becomes 0, nothing is dropped
handle_nan_values(df) ==
    [i \in DOMAIN df |->
        IF df[i].Volume = NaN THEN [df[i] EXCEPT !.Volume = 0] ELSE df[i]]

\* fetch_chunk on one ticker's part of the history: the ticker column is
\* the provider's ticker as it is, the time is floored to its day
ProcessTicker(ticker, bars) ==
    LET df == handle_nan_values(bars)
    IN  [i \in DOMAIN df |-> StoreRow(ticker, df[i])]

\* Ticker(tickers).history(start=start_date, interval='1d'): nothing, or
\* for every ticker of the group one bar per day from start to the day of
\* the run, the first bar of each of one kind
GroupHistory(tickers, start) ==
    LET from == IF start < 0 THEN 0 ELSE start
        n == today - from + 1
    IN  {[t \in Range(tickers) |-> <<>>]} \cup
        IF n <= 0 THEN {}
        ELSE {[t \in Range(tickers) |->
                  [i \in 1..n |-> Bar(from + i - 1, IF i = 1 THEN k ELSE "ok")]] :
                  k \in BarKinds}

\* the frame fetch_chunk returns for a history
ProcessHistory(tickers, history) ==
    Concat([j \in DOMAIN tickers |-> ProcessTicker(tickers[j], history[tickers[j]])])

\* The stored rows the run starts from: each ticker is absent or has a
\* last row on some day up to the day of the run.
FillTables(day) ==
    {{StoreRow(t, OkBar(f[t])) : t \in {x \in Universe : f[x] >= 0}} :
        f \in [Universe -> {0 - 1} \cup 0..day]}

FillInit ==
    /\ LoopIdle
    /\ MissIdle
    /\ CollectIdle
    /\ CalIdle
    /\ BatchIdle
    /\ NormIdle
    /\ MainIdle /\ QualIdle /\ PoolIdle /\ SchedIdle /\ ChunkIdle /\ ValidIdle
    /\ today \in Dates
    /\ store \in FillTables(today)
    /\ calls = {}
    /\ writer_input = {}
    /\ run = 1
    /\ run_start_store = store
    /\ inserted = {}
    /\ f_pc = "start"
    /\ db_attempts = 0
    /\ tickers_with_dates = <<>>
    /\ f_batch_size \in 1..MaxBatchSize
    /\ f_i = 0
    /\ ticker_chunks = <<>>
    /\ pending = {}
    /\ chunk_data = <<>>
    /\ all_data = <<>>
    /\ batches_processed = 0
    /\ chunk_failed = {}
    /\ combined_data = <<>>

\* SELECT ticker, max(time) ... ORDER BY ticker, as (ticker, last_update)
TickersWithLastUpdate(table) ==
    LET present == SelectSeq(tickers_list,
                             LAMBDA t : \E r \in table : r.ticker = t)
    IN  [j \in DOMAIN present |-> <<present[j], LastTimes(table)[present[j]]>>]

\* (ticker, last_update - timedelta(days=1))
WithStartDates(rows) ==
    [j \in DOMAIN rows |-> <<rows[j][1], rows[j][2] - 1>>]

\* fetch_tickers_from_db answered, and main up to process_in_batches
FetchTickersFromDb ==
    /\ f_pc = "start"
    /\ db_attempts' = db_attempts + 1
    /\ tickers_with_dates' = WithStartDates(TickersWithLastUpdate(store))
    /\ f_pc' = IF TickersWithLastUpdate(store) = <<>> THEN "done" ELSE "batch"
    /\ UNCHANGED <<run, run_start_store, inserted>>
    /\ UNCHANGED notFill
    /\ UNCHANGED <<envVars, today, f_batch_size, f_i, ticker_chunks, pending,
                   chunk_data, all_data, batches_processed, chunk_failed,
                   combined_data>>

\* fetch_tickers_from_db raising: retried, and after the third failed
\* attempt the exception leaves main
FetchTickersFromDbError ==
    /\ f_pc = "start"
    /\ db_attempts' = db_attempts + 1
    /\ f_pc' = IF db_attempts + 1 >= RETRY_ATTEMPTS THEN "failed" ELSE "start"
    /\ UNCHANGED <<run, run_start_store, inserted>>
    /\ UNCHANGED notFill
    /\ UNCHANGED <<envVars, today, tickers_with_dates, f_batch_size, f_i,
                   ticker_chunks, pending, chunk_data, all_data,
                   batches_processed, chunk_failed, combined_data>>

\* process_in_batches entering a batch: fetch_historical_data_parallel
\* builds the groups and submits each to the executor
StartBatch ==
    /\ f_pc = "batch"
    /\ f_i < Len(tickers_with_dates)
    /\ ticker_chunks' = TickerChunks(Slice(tickers_with_dates, f_i, f_batch_size))
    /\ pending' = DOMAIN ticker_chunks'
    /\ chunk_data' = <<>>
    /\ f_pc' = "fetching"
    /\ UNCHANGED <<run, run_start_store, inserted>>
    /\ UNCHANGED notFill
    /\ UNCHANGED <<envVars, today, db_attempts, tickers_with_dates,
                   f_batch_size, f_i, all_data, batches_processed,
                   chunk_failed, combined_data>>

\* fetch_chunk of one group answered by the provider, and its result
\* collected: a non-empty frame is appended
FetchChunk(g) ==
    /\ f_pc = "fetching"
    /\ g \in pending
    /\ LET tickers == ticker_chunks[g][1]
           start_date == ticker_chunks[g][2]
       IN  /\ calls' = calls \cup {[tickers |-> tickers, start |-> start_date]}
           /\ \E history \in GroupHistory(tickers, start_date) :
                 LET data == ProcessHistory(tickers, history)
                 IN  chunk_data' = IF data = <<>> THEN chunk_data
                                   ELSE Append(chunk_data, data)
    /\ pending' = pending \ {g}
    /\ UNCHANGED <<run, run_start_store, inserted>>
    /\ UNCHANGED notFill
    /\ UNCHANGED <<store, writer_input, f_pc, today, db_attempts,
                   tickers_with_dates, f_batch_size, f_i, ticker_chunks,
                   all_data, batches_processed, chunk_failed, combined_data>>

\* fetch_chunk of one group, the provider raising: caught at once, logged
\* as "Failed to fetch chunk" and answered with an empty frame
FetchChunkError(g) ==
    /\ f_pc = "fetching"
    /\ g \in pending
    /\ calls' = calls \cup {[tickers |-> ticker_chunks[g][1],
                              start |-> ticker_chunks[g][2]]}
    /\ chunk_failed' = chunk_failed \cup {ticker_chunks[g]}
    /\ pending' = pending \ {g}
    /\ UNCHANGED <<run, run_start_store, inserted>>
    /\ UNCHANGED notFill
    /\ UNCHANGED <<store, writer_input, f_pc, today, db_attempts,
                   tickers_with_dates, f_batch_size, f_i, ticker_chunks,
                   chunk_data, all_data, batches_processed, combined_data>>

\* insert_into_questdb(df): the rows are sent, or the sender raises and
\* the exception is caught and logged
InsertIntoQuestdb(df, ok) ==
    /\ writer_input' = writer_input \cup Range(df)
    /\ store' = IF ok THEN store \cup Range(df) ELSE store
    /\ inserted' = IF ok THEN inserted \cup Range(df) ELSE inserted

\* batches_processed % 10 == 0
INSERT_EVERY == 10

\* process_in_batches after fetch_historical_data_parallel returned: a
\* batch with data is kept, and every tenth such batch flushes all_data
CollectBatch ==
    /\ f_pc = "fetching"
    /\ pending = {}
    /\ LET data == Concat(chunk_data)
           kept == Append(all_data, data)
       IN  IF data = <<>>
           THEN UNCHANGED <<store, writer_input, inserted, all_data,
                            batches_processed>>
           ELSE /\ batches_processed' = batches_processed + 1
                /\ IF (batches_processed + 1) % INSERT_EVERY = 0
                   THEN /\ \E ok \in BOOLEAN : InsertIntoQuestdb(Concat(kept), ok)
                        /\ all_data' = <<>>
                   ELSE /\ all_data' = kept
                        /\ UNCHANGED <<store, writer_input, inserted>>
    /\ f_i' = f_i + f_batch_size
    /\ f_pc' = IF f_i + f_batch_size < Len(tickers_with_dates)
               THEN "batch" ELSE "finish"
    /\ UNCHANGED <<run, run_start_store>>
    /\ UNCHANGED notFill
    /\ UNCHANGED <<calls, today, db_attempts, tickers_with_dates, f_batch_size,
                   ticker_chunks, pending, chunk_data, chunk_failed,
                   combined_data>>

\* process_in_batches after its loop: the remaining data is inserted, and
\* what is left in all_data is returned
FinishBatches ==
    /\ f_pc = "finish"
    /\ IF all_data # <<>>
       THEN \E ok \in BOOLEAN : InsertIntoQuestdb(Concat(all_data), ok)
       ELSE UNCHANGED <<store, writer_input, inserted>>
    /\ combined_data' = Concat(all_data)
    /\ f_pc' = "done"
    /\ UNCHANGED <<run, run_start_store>>
    /\ UNCHANGED notFill
    /\ UNCHANGED <<calls, today, db_attempts, tickers_with_dates, f_batch_size,
                   f_i, ticker_chunks, pending, chunk_data, all_data,
                   batches_processed, chunk_failed>>

\* the script run again once it has ended, on the same day: every variable
\* of the process starts afresh, the table is what the run before left,
\* and calls and writer_input log the new run
RunAgain ==
    /\ f_pc \in {"done", "failed"}
    /\ run < MaxRunCount
    /\ run' = run + 1
    /\ run_start_store' = store
    /\ inserted' = {}
    /\ f_pc' = "start"
    /\ db_attempts' = 0
    /\ tickers_with_dates' = <<>>
    /\ f_i' = 0
    /\ ticker_chunks' = <<>>
    /\ pending' = {}
    /\ chunk_data' = <<>>
    /\ all_data' = <<>>
    /\ batches_processed' = 0
    /\ chunk_failed' = {}
    /\ combined_data' = <<>>
    /\ calls' = {}
    /\ writer_input' = {}
    /\ UNCHANGED <<store, today, f_batch_size>>
    /\ UNCHANGED notFill

FillNext ==
    \/ FetchTickersFromDb
    \/ FetchTickersFromDbError
    \/ StartBatch
    \/ \E g \in pending : FetchChunk(g)
    \/ \E g \in pending : FetchChunkError(g)
    \/ CollectBatch
    \/ FinishBatches

SpecFill == FillInit /\ [][FillNext]_vars

\* the script run MaxRunCount times in a row on one day
FillAgainNext ==
    \/ RunAgain
    \/ FetchTickersFromDb
    \/ FetchTickersFromDbError
    \/ StartBatch
    \/ \E g \in pending : FetchChunk(g)
    \/ \E g \in pending : FetchChunkError(g)
    \/ CollectBatch
    \/ FinishBatches

SpecFillAgain == FillInit /\ [][FillAgainNext]_vars

-----------------------------------------------------------------------------
(* fill.py: the grouping of fetch_historical_data_parallel and the batch   *)
(* slicing of process_in_batches, on ticker lists long enough for the caps *)

\* process_in_batches(tickers_with_dates, batch_size=100)
BATCH_SIZE == 100

MaxRuns == 3
NumStartDates == 2
RunLengths == {1, 20, 50, 51}

\* the start dates of a list made of runs of equal start dates
RECURSIVE RunDates(_)
RunDates(runs) ==
    IF runs = <<>> THEN <<>>
    ELSE [i \in 1..Head(runs)[2] |-> Head(runs)[1]] \o RunDates(Tail(runs))

\* tickers_with_dates: the k-th ticker with its start date
PairsOf(dates) == [k \in DOMAIN dates |-> <<k, dates[k]>>]

RunLists ==
    UNION {[1..n -> (1..NumStartDates) \X RunLengths] : n \in 0..MaxRuns}

\* range(0, len(tickers_with_dates), batch_size)
BatchStarts(n, size) == [k \in 1..((n + size - 1) \div size) |-> (k - 1) * size]

\* the groups fetch_historical_data_parallel builds over the whole run of
\* process_in_batches, batch after batch
BatchedChunks(list, size) ==
    Concat([k \in DOMAIN BatchStarts(Len(list), size) |->
               TickerChunks(Slice(list, BatchStarts(Len(list), size)[k], size))])

SchedInit ==
    /\ LoopIdle
    /\ MissIdle
    /\ CollectIdle
    /\ CalIdle
    /\ BatchIdle
    /\ NormIdle
    /\ EnvIdle /\ MainIdle /\ FillIdle /\ QualIdle /\ PoolIdle /\ ChunkIdle /\ ValidIdle
    /\ s_pc = "input"
    /\ \E runs \in RunLists : s_pairs = PairsOf(RunDates(runs))
    /\ direct_chunks = <<>>
    /\ batched_chunks = <<>>

\* fetch_historical_data_parallel(tickers_with_dates) on the whole list
GroupTickers ==
    /\ s_pc = "input"
    /\ direct_chunks' = TickerChunks(s_pairs)
    /\ s_pc' = "grouped"
    /\ UNCHANGED <<s_pairs, batched_chunks>>
    /\ UNCHANGED notSched

\* process_in_batches(tickers_with_dates): the groups of every batch
GroupBatches ==
    /\ s_pc = "grouped"
    /\ batched_chunks' = BatchedChunks(s_pairs, BATCH_SIZE)
    /\ s_pc' = "done"
    /\ UNCHANGED <<s_pairs, direct_chunks>>
    /\ UNCHANGED notSched

SchedNext == GroupTickers \/ GroupBatches

SpecSched == SchedInit /\ [][SchedNext]_vars

-----------------------------------------------------------------------------
(* fetch-stocks.py: process_batch, and fill.py:                            *)
(* fetch_historical_data_parallel: the thread pool that fetches a batch    *)

\* process_batch(tickers_batch, max_workers=5)
PROCESS_BATCH_WORKERS == 5

\* fetch_historical_data_parallel(tickers_with_dates, max_workers=20)
PARALLEL_WORKERS == 20

MaxGroups == 11
MaxGroupTickers == 2

\* the batches handed to a pool: runs of equal start dates, a run after
\* another having another start date
PoolBatches ==
    {PairsOf(RunDates([i \in 1..n |-> <<1 + (i % 2), g>>])) :
        n \in 1..MaxGroups, g \in 1..MaxGroupTickers}

\* what each pool is handed by executor.submit: process_batch submits one
\* fetch_ticker_data per ticker, fetch_historical_data_parallel submits one
\* fetch_chunk per ticker group
SubmittedTasks(script, batch) ==
    IF script = "fetch-stocks"
    THEN [i \in DOMAIN batch |-> <<batch[i][1]>>]
    ELSE [i \in DOMAIN TickerChunks(batch) |-> TickerChunks(batch)[i][1]]

PoolInit ==
    /\ LoopIdle
    /\ MissIdle
    /\ CollectIdle
    /\ CalIdle
    /\ BatchIdle
    /\ NormIdle
    /\ EnvIdle /\ MainIdle /\ FillIdle /\ QualIdle /\ SchedIdle /\ ChunkIdle
    /\ ValidIdle
    /\ p_pc = "submit"
    /\ p_script \in {"fetch-stocks", "fill"}
    /\ max_workers = IF p_script = "fetch-stocks" THEN PROCESS_BATCH_WORKERS
                     ELSE PARALLEL_WORKERS
    /\ p_batch \in PoolBatches
    /\ p_tasks = <<>>
    /\ p_running = EmptyBag

\* the comprehension of executor.submit calls: every task is queued
SubmitTasks ==
    /\ p_pc = "submit"
    /\ p_tasks' = SubmittedTasks(p_script, p_batch)
    /\ p_pc' = "running"
    /\ UNCHANGED <<p_script, p_batch, max_workers, p_running>>
    /\ UNCHANGED notPool

\* a free worker of process_batch's pool takes fetch_ticker_data(ticker):
\* it has one request in flight
WorkerFetchTickerData ==
    /\ p_pc = "running"
    /\ p_script = "fetch-stocks"
    /\ p_tasks # <<>>
    /\ BagCardinality(p_running) < max_workers
    /\ p_running' = p_running (+) SetToBag({1})
    /\ p_tasks' = Tail(p_tasks)
    /\ UNCHANGED <<p_pc, p_script, p_batch, max_workers>>
    /\ UNCHANGED notPool

\* a free worker of fetch_historical_data_parallel's pool takes
\* fetch_chunk(chunk): Ticker(tickers, asynchronous=True).history has the
\* requests of up to all its tickers in flight at once
WorkerFetchChunk ==
    /\ p_pc = "running"
    /\ p_script = "fill"
    /\ p_tasks # <<>>
    /\ BagCardinality(p_running) < max_workers
    /\ \E k \in 1..Len(Head(p_tasks)) : p_running' = p_running (+) SetToBag({k})
    /\ p_tasks' = Tail(p_tasks)
    /\ UNCHANGED <<p_pc, p_script, p_batch, max_workers>>
    /\ UNCHANGED notPool

\* a busy worker's task returns
WorkerReturns ==
    /\ p_pc = "running"
    /\ \E k \in BagToSet(p_running) : p_running' = p_running (-) SetToBag({k})
    /\ UNCHANGED <<p_pc, p_script, p_batch, max_workers, p_tasks>>
    /\ UNCHANGED notPool

\* the with block of the executor left: every task has returned
PoolShutdown ==
    /\ p_pc = "running"
    /\ p_tasks = <<>>
    /\ p_running = EmptyBag
    /\ p_pc' = "done"
    /\ UNCHANGED <<p_script, p_batch, max_workers, p_tasks, p_running>>
    /\ UNCHANGED notPool

PoolNext ==
    \/ SubmitTasks
    \/ WorkerFetchTickerData
    \/ WorkerFetchChunk
    \/ WorkerReturns
    \/ PoolShutdown

SpecPool == PoolInit /\ [][PoolNext]_vars

-----------------------------------------------------------------------------
(* quality.py: the date chunks of analyze_and_fill_gaps *)

\* chunk_size = 1000
DATE_CHUNK_SIZE == 1000

MaxMissing == 2001
MaxStride == 2

\* slices one date too long: missing_dates[i:i + chunk_size + 1]
DateChunksOverlap(dates) ==
    [k \in 1..((Len(dates) + DATE_CHUNK_SIZE - 1) \div DATE_CHUNK_SIZE) |->
        SubSeq(dates, (k - 1) * DATE_CHUNK_SIZE + 1,
               Min(k * DATE_CHUNK_SIZE + 1, Len(dates)))]

\* [missing_dates[i:i + chunk_size] for i in range(0, len, chunk_size)]
DateChunks(dates) == Batches(dates, DATE_CHUNK_SIZE)

ChunkInit ==
    /\ LoopIdle
    /\ MissIdle
    /\ CollectIdle
    /\ CalIdle
    /\ BatchIdle
    /\ NormIdle
    /\ EnvIdle /\ MainIdle /\ FillIdle /\ QualIdle /\ PoolIdle /\ SchedIdle /\ ValidIdle
    /\ c_pc = "input"
    /\ \E n \in 0..MaxMissing, stride \in 1..MaxStride :
          missing_dates = [i \in 1..n |-> i * stride]
    /\ date_chunks = <<>>

SplitMissingDates ==
    /\ c_pc = "input"
    /\ date_chunks' = DateChunks(missing_dates)
    /\ c_pc' = "done"
    /\ UNCHANGED missing_dates
    /\ UNCHANGED notChunk

ChunkNext == SplitMissingDates

SpecChunks == ChunkInit /\ [][ChunkNext]_vars

-----------------------------------------------------------------------------
(* quality.py: analyze_and_fill_gaps *)

MaxGapDate == 4

GapDates == 0..MaxGapDate

\* the tickers of stock_data in the order of the query, ORDER BY ticker
stored_order == <<(<<"A">>), (<<"V">>)>>

\* sorted(list(dates))
RECURSIVE Sorted(_)
Sorted(S) ==
    IF S = {} THEN <<>>
    ELSE LET m == CHOOSE x \in S : \A y \in S : x <= y
         IN  <<m>> \o Sorted(S \ {m})

\* history(start, end) of a ticker the provider has: one bar per trading
\* day of [start, end)
DailyBars(start, end) ==
    LET days == Sorted({d \in trading : start <= d /\ d < end})
    IN  [i \in DOMAIN days |-> OkBar(days[i])]

\* get_all_db_data: every ticker of the table with the set of its dates
AllDbData(table) ==
    [t \in {r.ticker : r \in table} |->
        [dates |-> {r.time : r \in {x \in table : x.ticker = t}}]]

\* the histories the run starts from: the first ticker has bars on any of
\* the trading days, the second has none, all of them, or the first and
\* the last only
GapTables(days) ==
    LET whole == {StoreRow(stored_order[2], OkBar(d)) : d \in days}
        ends == {StoreRow(stored_order[2], OkBar(d)) :
                    d \in {x \in days : x = Max(days) \/ x = 0 - Max({0 - y : y \in days})}}
    IN  {{StoreRow(stored_order[1], OkBar(d)) : d \in S} \cup other :
            S \in SUBSET days, other \in {{}, whole, ends}}

QualInit ==
    /\ LoopIdle
    /\ MissIdle
    /\ CollectIdle
    /\ CalIdle
    /\ BatchIdle
    /\ NormIdle
    /\ MainIdle /\ FillIdle /\ PoolIdle /\ SchedIdle /\ ChunkIdle /\ ValidIdle
    /\ \E holiday \in {0 - 1} \cup GapDates : trading = GapDates \ {holiday}
    /\ store \in GapTables(trading)
    /\ calls = {}
    /\ writer_input = {}
    /\ q_pc = "start"
    /\ db_data = EmptyDict
    /\ q_k = 1
    /\ q_missing = <<>>
    /\ q_chunks = <<>>
    /\ q_c = 1
    /\ analysed = {}
    /\ q_raised = "none"
    /\ q_slept = FALSE

\* db_data.items(): the tickers in the order the query returned them
db_order == SelectSeq(stored_order, LAMBDA t : t \in DOMAIN db_data)

\* get_all_db_data answered
GetAllDbData ==
    /\ q_pc = "start"
    /\ db_data' = AllDbData(store)
    /\ q_pc' = IF store = {} THEN "done" ELSE "ticker"
    /\ UNCHANGED <<envVars, trading, q_raised, q_slept, q_k, q_missing, q_chunks, q_c, analysed>>
    /\ UNCHANGED notQual

\* get_all_db_data raising: it returns {} and the loop has nothing to do
GetAllDbDataError ==
    /\ q_pc = "start"
    /\ db_data' = EmptyDict
    /\ q_pc' = "done"
    /\ UNCHANGED <<envVars, trading, q_raised, q_slept, q_k, q_missing, q_chunks, q_c, analysed>>
    /\ UNCHANGED notQual

q_ticker == db_order[q_k]

ticker_dates == Sorted(db_data[q_ticker].dates)

first_date == ticker_dates[1]

last_date == ticker_dates[Len(ticker_dates)]

\* the reference not restricted to the ticker's own range (C19), and
\* restricted at its start only (C20)
TradingDaysOfCalendar == trading

TradingDaysFromFirst == {d \in trading : first_date <= d}

\* set(d.date() for d in reference_history.index), the reference being
\* spy.history(start=first_date, end=last_date)
TradingDays == {d \in trading : first_date <= d /\ d < last_date}

\* sorted(list(trading_days - set(ticker_dates)))
MissingDates == Sorted(TradingDays \ db_data[q_ticker].dates)

\* the loop "for ticker, data in db_data.items()" moving on
NextTicker ==
    /\ analysed' = analysed \cup {q_ticker}
    /\ q_missing' = <<>>
    /\ q_chunks' = <<>>
    /\ q_c' = 1
    /\ IF q_k < Len(db_order)
       THEN q_k' = q_k + 1 /\ q_pc' = "ticker"
       ELSE q_k' = q_k /\ q_pc' = "done"

\* the analysis of one ticker: the reference calendar is fetched and the
\* missing dates are computed and cut into chunks
AnalyzeTicker ==
    /\ q_pc = "ticker"
    /\ calls' = calls \cup {[ticker |-> <<"S", "P", "Y">>, start |-> first_date,
                              end |-> last_date]}
    /\ IF MissingDates # <<>>
       THEN /\ q_missing' = MissingDates
            /\ q_chunks' = DateChunks(MissingDates)
            /\ q_c' = 1
            /\ q_pc' = "chunk"
            /\ UNCHANGED <<q_k, analysed>>
       ELSE NextTicker
    /\ q_slept' = FALSE
    /\ UNCHANGED <<store, writer_input, trading, db_data, q_raised>>
    /\ UNCHANGED notQual

\* spy.history raising: nothing catches it, the run ends with the exception
AnalyzeTickerError ==
    /\ q_pc = "ticker"
    /\ calls' = calls \cup {[ticker |-> <<"S", "P", "Y">>, start |-> first_date,
                              end |-> last_date]}
    /\ q_pc' = "crashed"
    /\ q_raised' = "provider error"
    /\ UNCHANGED <<store, writer_input, trading, db_data, q_slept, q_k, q_missing,
                   q_chunks, q_c, analysed>>
    /\ UNCHANGED notQual

q_chunk == q_chunks[q_c]

\* ticker_obj.history(start=chunk[0], end=chunk[-1] + timedelta(days=1))
ChunkCall ==
    [ticker |-> q_ticker, start |-> q_chunk[1], end |-> q_chunk[Len(q_chunk)] + 1]

\* the loop "for chunk in date_chunks" moving on after time.sleep(1)
NextChunk ==
    /\ q_slept' = TRUE
    /\ IF q_c < Len(q_chunks)
       THEN /\ q_c' = q_c + 1
            /\ q_pc' = "chunk"
            /\ UNCHANGED <<q_k, q_missing, q_chunks, analysed>>
       ELSE NextTicker

\* one chunk fetched and ingested: every bar of the answer is inserted
\* under the ticker's storage key
FillChunk ==
    /\ q_pc = "chunk"
    /\ calls' = calls \cup {ChunkCall}
    /\ LET df == DailyBars(ChunkCall.start, ChunkCall.end)
       IN  /\ df # <<>>
           /\ writer_input' = writer_input \cup
                                {WriterRow(q_ticker, df[i]) : i \in DOMAIN df}
           /\ store' = store \cup
                         {StoreRow(StorageKey(q_ticker), df[i]) : i \in DOMAIN df}
    /\ NextChunk
    /\ UNCHANGED <<trading, db_data, q_raised>>
    /\ UNCHANGED notQual

\* one chunk fetched, cursor.executemany raising: ingest_batch_data catches
\* it, nothing is committed
FillChunkInsertError ==
    /\ q_pc = "chunk"
    /\ calls' = calls \cup {ChunkCall}
    /\ LET df == DailyBars(ChunkCall.start, ChunkCall.end)
       IN  /\ df # <<>>
           /\ writer_input' = writer_input \cup
                                {WriterRow(q_ticker, df[i]) : i \in DOMAIN df}
    /\ NextChunk
    /\ UNCHANGED <<store, trading, db_data, q_raised>>
    /\ UNCHANGED notQual

\* one chunk fetched, the provider answering with an empty frame
FillChunkEmpty ==
    /\ q_pc = "chunk"
    /\ calls' = calls \cup {ChunkCall}
    /\ NextChunk
    /\ UNCHANGED <<store, writer_input, trading, db_data, q_raised>>
    /\ UNCHANGED notQual

\* ticker_obj.history raising: nothing catches it, the run ends
FillChunkFetchError ==
    /\ q_pc = "chunk"
    /\ calls' = calls \cup {ChunkCall}
    /\ q_pc' = "crashed"
    /\ q_raised' = "provider error"
    /\ UNCHANGED <<store, writer_input, trading, db_data, q_slept, q_k, q_missing,
                   q_chunks, q_c, analysed>>
    /\ UNCHANGED notQual

\* one chunk fetched, get_db_connection raising in ingest_batch_data: the
\* except clause prints, then "finally: cursor.close()" raises on the
\* unbound cursor and the run ends with that exception
FillChunkConnectError ==
    /\ q_pc = "chunk"
    /\ calls' = calls \cup {ChunkCall}
    /\ LET df == DailyBars(ChunkCall.start, ChunkCall.end)
       IN  /\ df # <<>>
           /\ writer_input' = writer_input \cup
                                {WriterRow(q_ticker, df[i]) : i \in DOMAIN df}
    /\ q_pc' = "crashed"
    /\ q_raised' = "UnboundLocalError"
    /\ UNCHANGED <<store, trading, db_data, q_slept, q_k, q_missing, q_chunks, q_c,
                   analysed>>
    /\ UNCHANGED notQual

QualNext ==
    \/ GetAllDbData
    \/ GetAllDbDataError
    \/ AnalyzeTicker
    \/ AnalyzeTickerError
    \/ FillChunk
    \/ FillChunkInsertError
    \/ FillChunkEmpty
    \/ FillChunkFetchError
    \/ FillChunkConnectError

SpecQual == QualInit /\ [][QualNext]_vars

-----------------------------------------------------------------------------
(* fill.py: process_in_batches and the report of main, over many batches *)

\* Each batch is known by its number, and the frame its fetch returns is
\* empty or holds the rows of that batch, written as the batch number.
MaxBatches == 11

\* fetch_historical_data_parallel(batch) returning rows
BatchFrame(k) == <<k>>

\* pd.concat(frames, ignore_index=True)
ConcatFrames(frames) ==
    LET RECURSIVE cat(_)
        cat(n) == IF n = 0 THEN <<>> ELSE cat(n - 1) \o frames[n]
    IN  cat(Len(frames))

\* all_data kept after a flush of ten batches (C27)
AllDataKept(kept) == kept

\* all_data = [] after a flush of ten batches
AllDataAfterFlush(kept) == <<>>

\* insert_into_questdb(df): its call, and the message it logs
InsertCall(df, ok) == [df |-> df, ok |-> ok]

InsertMessage(ok) ==
    IF ok THEN "Data inserted into QuestDB successfully."
    ELSE "Failed to insert data into QuestDB"

BatchInit ==
    /\ LoopIdle
    /\ MissIdle
    /\ CollectIdle
    /\ CalIdle
    /\ EnvIdle /\ MainIdle /\ FillIdle /\ QualIdle /\ PoolIdle /\ SchedIdle
    /\ ChunkIdle /\ ValidIdle /\ NormIdle
    /\ pb_pc = "loop"
    /\ batch_count \in 1..MaxBatches
    /\ pb_i = 0
    /\ with_data = {}
    /\ pb_all_data = <<>>
    /\ pb_batches_processed = 0
    /\ insert_calls = <<>>
    /\ log = <<>>
    /\ returned = <<>>

\* one pass of the loop, the fetch of the batch returning rows: the frame
\* is kept, and every tenth such batch all_data is inserted and emptied
ProcessBatchWithData ==
    /\ pb_pc = "loop"
    /\ pb_i < batch_count
    /\ pb_i' = pb_i + 1
    /\ with_data' = with_data \cup {pb_i + 1}
    /\ pb_batches_processed' = pb_batches_processed + 1
    /\ LET kept == Append(pb_all_data, BatchFrame(pb_i + 1))
       IN  IF (pb_batches_processed + 1) % INSERT_EVERY = 0
           THEN \E ok \in BOOLEAN :
                   /\ insert_calls' =
                         Append(insert_calls, InsertCall(ConcatFrames(kept), ok))
                   /\ log' = log \o <<InsertMessage(ok),
                                       "Inserted 10 batches into QuestDB.">>
                   /\ pb_all_data' = AllDataAfterFlush(kept)
           ELSE /\ pb_all_data' = kept
                /\ UNCHANGED <<insert_calls, log>>
    /\ UNCHANGED <<pb_pc, batch_count, returned>>
    /\ UNCHANGED notBatch

\* one pass of the loop, the fetch of the batch returning an empty frame
ProcessBatchEmpty ==
    /\ pb_pc = "loop"
    /\ pb_i < batch_count
    /\ pb_i' = pb_i + 1
    /\ UNCHANGED <<pb_pc, batch_count, with_data, pb_all_data,
                   pb_batches_processed, insert_calls, log, returned>>
    /\ UNCHANGED notBatch

\* after the loop: what is left in all_data is inserted, and all_data is
\* returned
InsertRemaining ==
    /\ pb_pc = "loop"
    /\ pb_i = batch_count
    /\ IF pb_all_data # <<>>
       THEN \E ok \in BOOLEAN :
               /\ insert_calls' =
                     Append(insert_calls,
                            InsertCall(ConcatFrames(pb_all_data), ok))
               /\ log' = log \o <<InsertMessage(ok),
                                   "Inserted remaining data into QuestDB.">>
       ELSE UNCHANGED <<insert_calls, log>>
    /\ returned' = ConcatFrames(pb_all_data)
    /\ pb_pc' = "returned"
    /\ UNCHANGED <<batch_count, pb_i, with_data, pb_all_data,
                   pb_batches_processed>>
    /\ UNCHANGED notBatch

\* main after process_in_batches: the summary, or the warning
ReportRun ==
    /\ pb_pc = "returned"
    /\ log' = Append(log, IF returned # <<>>
                          THEN "Final transformed data summary:"
                          ELSE "No data fetched for any ticker.")
    /\ pb_pc' = "done"
    /\ UNCHANGED <<batch_count, pb_i, with_data, pb_all_data,
                   pb_batches_processed, insert_calls, returned>>
    /\ UNCHANGED notBatch

BatchNext ==
    \/ ProcessBatchWithData
    \/ ProcessBatchEmpty
    \/ InsertRemaining
    \/ ReportRun

SpecBatch == BatchInit /\ [][BatchNext]_vars

-----------------------------------------------------------------------------
(* insert_holidays_until_2050.py: the closed days and their next trading day *)

\* Days are counted from start_date, 1980-01-01, a Tuesday; end_date,
\* 2050-12-31, is a Saturday, as is every end of range of the model.
MaxWeeks == 2
MaxHolidays == 2

\* date.weekday(): Monday is 0
Weekday(d) == (d + 1) % 7

IsWeekend(d) == Weekday(d) >= 5

\* the range ends on the Saturday of some week
RangeEnds == {7 * w + 4 : w \in 1..MaxWeeks}

\* the days the model looks at: the range and the week after it
Horizon(end) == 0..(end + 7)

\* the holidays of the market calendar: some weekdays of the horizon
HolidaySets(end) ==
    {H \in SUBSET {d \in Horizon(end) : ~IsWeekend(d)} :
        Cardinality(H) <= MaxHolidays}

\* get_weekends(start_date, end_date)
get_weekends(end) == {d \in 0..end : IsWeekend(d)}

\* get_holidays(start_date, end_date): the holidays within the range
get_holidays(end) == {d \in market_holidays : 0 <= d /\ d <= end}

\* get_closed_days(start_date, end_date): sorted(set(weekends + holidays))
get_closed_days(end) == Sorted(get_weekends(end) \cup get_holidays(end))

\* get_next_trading_day(date, closed_days)
RECURSIVE WhileClosed(_, _)
WhileClosed(next_day, closed) ==
    IF next_day \in closed THEN WhileClosed(next_day + 1, closed)
    ELSE next_day

get_next_trading_day(date, closed) == WhileClosed(date + 1, Range(closed))

CalInit ==
    /\ LoopIdle
    /\ MissIdle
    /\ CollectIdle
    /\ EnvIdle /\ MainIdle /\ FillIdle /\ QualIdle /\ PoolIdle /\ SchedIdle
    /\ ChunkIdle /\ ValidIdle /\ NormIdle /\ BatchIdle
    /\ cal_pc = "start"
    /\ cal_end \in RangeEnds
    /\ market_holidays \in HolidaySets(cal_end)
    /\ closed_days = <<>>
    /\ table_data = <<>>

\* closed_days, holidays = get_closed_days(start_date, end_date)
GetClosedDays ==
    /\ cal_pc = "start"
    /\ closed_days' = get_closed_days(cal_end)
    /\ cal_pc' = "rows"
    /\ UNCHANGED <<cal_end, market_holidays, table_data>>
    /\ UNCHANGED notCal

\* one pass of for day in closed_days: the row of the day
AppendRow ==
    /\ cal_pc = "rows"
    /\ Len(table_data) < Len(closed_days)
    /\ LET day == closed_days[Len(table_data) + 1]
       IN  table_data' =
               Append(table_data,
                      [Date |-> day,
                       next_trading_day |-> get_next_trading_day(day, closed_days)])
    /\ UNCHANGED <<cal_pc, cal_end, market_holidays, closed_days>>
    /\ UNCHANGED notCal

\* the loop over closed_days ending
RowsDone ==
    /\ cal_pc = "rows"
    /\ Len(table_data) = Len(closed_days)
    /\ cal_pc' = "done"
    /\ UNCHANGED <<cal_end, market_holidays, closed_days, table_data>>
    /\ UNCHANGED notCal

CalNext == GetClosedDays \/ AppendRow \/ RowsDone

SpecCal == CalInit /\ [][CalNext]_vars

-----------------------------------------------------------------------------
(* process_batch (main.py, fetch-stocks.py) and fetch_historical_data_parallel
   (fill.py): the results of concurrent fetches collected by as_completed *)

\* The fetches of a batch are known by their position; the frame of fetch
\* i is empty or holds rows of its own, written <<i>>, and its key in the
\* dict is the ticker of position i.
MaxTasks == 4

FetchKey(i) == <<"T", i>>

FrameOf(i) == <<i>>

\* results[ticker] = df whatever df holds (C25)
CollectEvenEmpty(dict, ticker, df) ==
    [k \in DOMAIN dict \cup {ticker} |-> IF k = ticker THEN df ELSE dict[k]]

\* if not df.empty: results[ticker] = df
CollectResult(dict, ticker, df) ==
    IF df = <<>> THEN dict
    ELSE [k \in DOMAIN dict \cup {ticker} |-> IF k = ticker THEN df ELSE dict[k]]

\* if not data.empty: all_data.append(data)
CollectData(list, data) ==
    IF data = <<>> THEN list ELSE Append(list, data)

CollectInit ==
    /\ LoopIdle
    /\ MissIdle
    /\ EnvIdle /\ MainIdle /\ FillIdle /\ QualIdle /\ PoolIdle /\ SchedIdle
    /\ ChunkIdle /\ ValidIdle /\ NormIdle /\ BatchIdle /\ CalIdle
    /\ col_pc = "collecting"
    /\ col_script \in {"process_batch", "fill"}
    /\ col_tasks \in 1..MaxTasks
    /\ futures = [i \in 1..col_tasks |-> "pending"]
    /\ fetched = [i \in 1..col_tasks |-> <<>>]
    /\ results = EmptyDict
    /\ col_all_data = <<>>
    /\ mutators = {}

\* a worker thread takes a pending fetch while fewer than max_workers run
WorkerStarts(i) ==
    /\ col_pc = "collecting"
    /\ futures[i] = "pending"
    /\ Cardinality({j \in DOMAIN futures : futures[j] = "running"})
          < (IF col_script = "fill" THEN PARALLEL_WORKERS
             ELSE PROCESS_BATCH_WORKERS)
    /\ futures' = [futures EXCEPT ![i] = "running"]
    /\ UNCHANGED <<col_pc, col_script, col_tasks, fetched, results,
                   col_all_data, mutators>>
    /\ UNCHANGED notCollect

\* fetch_ticker_data / fetch_chunk returning in its worker thread: rows,
\* or an empty frame (no data, or an exception caught inside)
WorkerFinishes(i) ==
    /\ col_pc = "collecting"
    /\ futures[i] = "running"
    /\ \E df \in {<<>>, FrameOf(i)} : fetched' = [fetched EXCEPT ![i] = df]
    /\ futures' = [futures EXCEPT ![i] = "finished"]
    /\ UNCHANGED <<col_pc, col_script, col_tasks, results, col_all_data,
                   mutators>>
    /\ UNCHANGED notCollect

\* one pass of for future in as_completed(futures), in the thread that
\* called process_batch: a finished future not yet yielded is collected
CollectFuture(i) ==
    /\ col_pc = "collecting"
    /\ futures[i] = "finished"
    /\ futures' = [futures EXCEPT ![i] = "yielded"]
    /\ IF col_script = "fill"
       THEN /\ col_all_data' = CollectData(col_all_data, fetched[i])
            /\ UNCHANGED results
       ELSE /\ results' = CollectResult(results, FetchKey(i), fetched[i])
            /\ UNCHANGED col_all_data
    /\ mutators' = IF fetched[i] = <<>> THEN mutators
                   ELSE mutators \cup {"MainThread"}
    /\ UNCHANGED <<col_pc, col_script, col_tasks, fetched>>
    /\ UNCHANGED notCollect

\* as_completed exhausted and the executor left: return results
ReturnResults ==
    /\ col_pc = "collecting"
    /\ \A i \in DOMAIN futures : futures[i] = "yielded"
    /\ col_pc' = "returned"
    /\ UNCHANGED <<col_script, col_tasks, futures, fetched, results,
                   col_all_data, mutators>>
    /\ UNCHANGED notCollect

CollectNext ==
    \/ \E i \in DOMAIN futures : WorkerStarts(i)
    \/ \E i \in DOMAIN futures : WorkerFinishes(i)
    \/ \E i \in DOMAIN futures : CollectFuture(i)
    \/ ReturnResults

SpecCollect == CollectInit /\ [][CollectNext]_vars

-----------------------------------------------------------------------------
(* fetch_missing_stocks.py: the backfill of the tickers missing in the table *)

\* the constituents and the extra tickers, '^VIX' among them
WantedTickers == {<<"A">>, <<"B">>, <<"^", "V">>}

\* ticker.replace('^', '') if ticker.startswith('^') else ticker
SymbolOf(ticker) ==
    IF Len(ticker) > 0 /\ ticker[1] = "^"
    THEN SelectSeq(ticker, LAMBDA c : c # "^")
    ELSE ticker

\* find_missing_tickers: sp500_tickers - existing_tickers
find_missing_tickers(wanted, existing) == wanted \ existing

MissInit ==
    /\ LoopIdle
    /\ EnvIdle /\ MainIdle /\ FillIdle /\ QualIdle /\ PoolIdle /\ SchedIdle
    /\ ChunkIdle /\ ValidIdle /\ NormIdle /\ BatchIdle /\ CalIdle
    /\ CollectIdle
    /\ ms_pc = "start"
    /\ ms_run = 1
    /\ stock_data2 \in SUBSET {SymbolOf(t) : t \in WantedTickers}
    /\ sp500_tickers = WantedTickers
    /\ existing_tickers = {}
    /\ missing_tickers = {}
    /\ ms_pending = {}
    /\ ms_calls = {}
    /\ ms_complete = TRUE
    /\ prev_complete = FALSE

\* main up to process_missing_tickers: the symbols of the table, and the
\* missing set; with none missing the run ends
FindMissing ==
    /\ ms_pc = "start"
    /\ existing_tickers' = stock_data2
    /\ missing_tickers' = find_missing_tickers(sp500_tickers, stock_data2)
    /\ ms_pending' = missing_tickers'
    /\ ms_pc' = IF missing_tickers' = {} THEN "done" ELSE "processing"
    /\ UNCHANGED <<ms_run, stock_data2, sp500_tickers, ms_calls, ms_complete,
                   prev_complete>>
    /\ UNCHANGED notMiss

\* a missing ticker fetched with rows and inserted under its symbol
FetchAndInsert(t) ==
    /\ ms_pc = "processing"
    /\ t \in ms_pending
    /\ ms_calls' = ms_calls \cup {t}
    /\ stock_data2' = stock_data2 \cup {SymbolOf(t)}
    /\ ms_pending' = ms_pending \ {t}
    /\ UNCHANGED <<ms_pc, ms_run, sp500_tickers, existing_tickers,
                   missing_tickers, ms_complete, prev_complete>>
    /\ UNCHANGED notMiss

\* a missing ticker whose fetch returned nothing or raised, or whose
\* insert failed: logged, nothing stored
FetchOrInsertFails(t) ==
    /\ ms_pc = "processing"
    /\ t \in ms_pending
    /\ ms_calls' = ms_calls \cup {t}
    /\ ms_complete' = FALSE
    /\ ms_pending' = ms_pending \ {t}
    /\ UNCHANGED <<ms_pc, ms_run, stock_data2, sp500_tickers, existing_tickers,
                   missing_tickers, prev_complete>>
    /\ UNCHANGED notMiss

\* every future collected: "Completed processing missing tickers"
MissingProcessed ==
    /\ ms_pc = "processing"
    /\ ms_pending = {}
    /\ ms_pc' = "done"
    /\ UNCHANGED <<ms_run, stock_data2, sp500_tickers, existing_tickers,
                   missing_tickers, ms_pending, ms_calls, ms_complete,
                   prev_complete>>
    /\ UNCHANGED notMiss

\* the script run again on the table the run before left
RunMissingAgain ==
    /\ ms_pc = "done"
    /\ ms_run < MaxRunCount
    /\ ms_run' = ms_run + 1
    /\ prev_complete' = ms_complete
    /\ ms_complete' = TRUE
    /\ ms_calls' = {}
    /\ existing_tickers' = {}
    /\ missing_tickers' = {}
    /\ ms_pending' = {}
    /\ ms_pc' = "start"
    /\ UNCHANGED <<stock_data2, sp500_tickers>>
    /\ UNCHANGED notMiss

MissNext ==
    \/ FindMissing
    \/ \E t \in ms_pending : FetchAndInsert(t)
    \/ \E t \in ms_pending : FetchOrInsertFails(t)
    \/ MissingProcessed
    \/ RunMissingAgain

SpecMiss == MissInit /\ [][MissNext]_vars

-----------------------------------------------------------------------------
(* main.py: the loops of fetch_and_ingest_data over a larger universe *)

\* The tickers are known by their position in tickers_list; what a fetch
\* returns and what the store does with a batch is left open.
MaxTickers == 5
MaxLoopBatchSize == 3

\* tickers_list = list(tickers)
LoopTickers == [k \in 1..ticker_count |-> k]

\* batches = [tickers_list[i:i + batch_size] for i in range(0, len, batch_size)]
loop_batches == Batches(LoopTickers, lp_batch_size)

\* the batch number after b with one batch left out (C30)
NextBatchSkipsOne(batches, b) ==
    IF b + 1 < Len(batches) THEN b + 2 ELSE 0

\* for batch_num, batch in enumerate(batches, 1): the batch number after
\* b, 0 after the last
NextBatch(batches, b) ==
    IF b < Len(batches) THEN b + 1 ELSE 0

LoopInit ==
    /\ EnvIdle /\ MainIdle /\ FillIdle /\ QualIdle /\ PoolIdle /\ SchedIdle
    /\ ChunkIdle /\ ValidIdle /\ NormIdle /\ BatchIdle /\ CalIdle
    /\ CollectIdle /\ MissIdle
    /\ lp_pc = "fetch"
    /\ ticker_count \in 1..MaxTickers
    /\ lp_batch_size \in 1..MaxLoopBatchSize
    /\ lp_batch_num = 1
    /\ lp_idx = 1
    /\ lp_batch_data = {}
    /\ visited = <<>>
    /\ skipped = {}
    /\ batches_visited = <<>>

loop_ticker == loop_batches[lp_batch_num][lp_idx]

\* for ticker in batch: on to the next ticker, or out of the inner loop
LoopAdvanceTicker ==
    /\ visited' = Append(visited, loop_ticker)
    /\ IF lp_idx < Len(loop_batches[lp_batch_num])
       THEN lp_idx' = lp_idx + 1 /\ lp_pc' = "fetch"
       ELSE lp_idx' = 1 /\ lp_pc' = "ingest"

\* start_date >= end_date: the ticker is skipped
LoopSkip ==
    /\ lp_pc = "fetch"
    /\ skipped' = skipped \cup {loop_ticker}
    /\ LoopAdvanceTicker
    /\ UNCHANGED <<ticker_count, lp_batch_size, lp_batch_num, lp_batch_data,
                   batches_visited>>
    /\ UNCHANGED notLoop

\* fetch_ticker_data returning rows: batch_data[ticker] = df
LoopFetchData ==
    /\ lp_pc = "fetch"
    /\ lp_batch_data' = lp_batch_data \cup {loop_ticker}
    /\ LoopAdvanceTicker
    /\ UNCHANGED <<ticker_count, lp_batch_size, lp_batch_num, skipped,
                   batches_visited>>
    /\ UNCHANGED notLoop

\* fetch_ticker_data returning an empty frame, the provider having
\* answered with nothing or raised
LoopFetchEmpty ==
    /\ lp_pc = "fetch"
    /\ LoopAdvanceTicker
    /\ UNCHANGED <<ticker_count, lp_batch_size, lp_batch_num, lp_batch_data,
                   skipped, batches_visited>>
    /\ UNCHANGED notLoop

\* the end of a pass of the outer loop, after time.sleep(1)
LoopAdvanceBatch ==
    /\ batches_visited' = Append(batches_visited, lp_batch_num)
    /\ lp_batch_data' = {}
    /\ IF NextBatch(loop_batches, lp_batch_num) # 0
       THEN /\ lp_batch_num' = NextBatch(loop_batches, lp_batch_num)
            /\ lp_pc' = "fetch"
       ELSE /\ lp_batch_num' = lp_batch_num
            /\ lp_pc' = "done"

\* ingest_batch_data returning, having written the batch or caught the
\* exception of the store
LoopIngest ==
    /\ lp_pc = "ingest"
    /\ lp_batch_data # {}
    /\ LoopAdvanceBatch
    /\ UNCHANGED <<ticker_count, lp_batch_size, lp_idx, visited, skipped>>
    /\ UNCHANGED notLoop

\* "No new data to ingest for batch"
LoopNoNewData ==
    /\ lp_pc = "ingest"
    /\ lp_batch_data = {}
    /\ LoopAdvanceBatch
    /\ UNCHANGED <<ticker_count, lp_batch_size, lp_idx, visited, skipped>>
    /\ UNCHANGED notLoop

LoopNext ==
    \/ LoopSkip
    \/ LoopFetchData
    \/ LoopFetchEmpty
    \/ LoopIngest
    \/ LoopNoNewData

SpecLoop == LoopInit /\ [][LoopNext]_vars

\* every call of the provider and of the store returns or raises, and the
\* one thread of the script then takes its next step
SpecLoopFair == SpecLoop /\ WF_vars(LoopNext)

-----------------------------------------------------------------------------
(* fill.py: normalize_market_time *)

\* An instant is a whole number of hours.  A 'time' column is its values,
\* each the wall-clock reading of an instant in the zone of the exchange,
\* the offset of that zone from UTC in hours, and whether the column
\* carries the zone (dt.tz is not None) or is naive.
MaxHour == 26
MaxTimes == 2

ZoneOffsets == {0 - 5, 0, 9}

TimeColumns ==
    {[aware |-> a, zone |-> z, values |-> v] :
        a \in BOOLEAN, z \in ZoneOffsets,
        v \in UNION {[1..n -> 0..MaxHour] : n \in 1..MaxTimes}}

\* dt.tz_convert('UTC').dt.tz_localize(None): the readings in UTC
TzConvertUtc(col) ==
    [aware |-> FALSE, zone |-> 0,
     values |-> [i \in DOMAIN col.values |-> col.values[i] - col.zone]]

\* dt.floor('D')
FloorDay(h) == (h \div 24) * 24

\* timedelta(hours=16)
MARKET_HOUR == 16

\* the floor taken on the readings of the exchange's zone, before the
\* conversion to UTC (C22)
NormalizeFloorFirst(col) ==
    [i \in DOMAIN col.values |->
        (IF col.aware THEN FloorDay(col.values[i]) - col.zone
         ELSE FloorDay(col.values[i])) + MARKET_HOUR]

\* normalize_market_time(df): the 'time' column it returns
NormalizeMarketTime(col) ==
    LET utc == IF col.aware THEN TzConvertUtc(col) ELSE col
    IN  [i \in DOMAIN utc.values |-> FloorDay(utc.values[i]) + MARKET_HOUR]

NormInit ==
    /\ LoopIdle
    /\ MissIdle
    /\ CollectIdle
    /\ CalIdle
    /\ BatchIdle
    /\ EnvIdle /\ MainIdle /\ FillIdle /\ QualIdle /\ PoolIdle /\ SchedIdle
    /\ ChunkIdle /\ ValidIdle
    /\ n_pc = "input"
    /\ time_column \in TimeColumns
    /\ normalized = <<>>

\* df = normalize_market_time(df) in fetch_chunk
NormalizeColumn ==
    /\ n_pc = "input"
    /\ normalized' = NormalizeMarketTime(time_column)
    /\ n_pc' = "done"
    /\ UNCHANGED time_column
    /\ UNCHANGED notNorm

NormNext == NormalizeColumn

SpecNorm == NormInit /\ [][NormNext]_vars

-----------------------------------------------------------------------------
(* fetch-stocks.py and fetch_missing_stocks.py: clean_and_validate_data *)

MaxRows == 2

\* UNIX_EPOCH = pd.Timestamp('1970-01-01'), 10957 days before 2000-01-01
UNIX_EPOCH == 0 - 10957

\* the bars a provider can deliver to a validator
RawBars ==
    [Date : {UNIX_EPOCH - 1, 0}, Open : {NaN, 100}, High : {100},
     Low : {95, 105}, Close : {0 - 1, 105}, Volume : {NaN, 0 - 1, 0}]

RawFrames == UNION {[1..n -> RawBars] : n \in 0..MaxRows}

\* df.dropna(subset=['Open', 'High', 'Low', 'Close', 'Volume'])
DropNa(df) ==
    SelectSeq(df, LAMBDA r : /\ r.Open # NaN /\ r.High # NaN /\ r.Low # NaN
                             /\ r.Close # NaN /\ r.Volume # NaN)

\* the mask without its volume test
InvalidMaskNoVolume(r) == Gt(r.Low, r.High) \/ Lt(r.Close, 0)

\* invalid_mask: (Low > High) | (Close < 0) | (Volume < 0)
InvalidMask(r) == Gt(r.Low, r.High) \/ Lt(r.Close, 0) \/ Lt(r.Volume, 0)

\* fetch-stocks.py clean_and_validate_data: an empty frame is returned
\* empty, else the rows with a NaN go, then the rows of the mask
CleanAndValidateData(df) ==
    IF df = <<>> THEN <<>>
    ELSE SelectSeq(DropNa(df), LAMBDA r : ~InvalidMask(r))

\* df[df['Date'] >= UNIX_EPOCH]
FromEpoch(df) == SelectSeq(df, LAMBDA r : r.Date >= UNIX_EPOCH)

\* fetch_missing_stocks.py clean_and_validate_data: the same, with the
\* pre-1970 rows removed between the two steps
CleanAndValidateDataMissing(df) ==
    IF df = <<>> THEN <<>>
    ELSE SelectSeq(FromEpoch(DropNa(df)), LAMBDA r : ~InvalidMask(r))

ValidInit ==
    /\ LoopIdle
    /\ MissIdle
    /\ CollectIdle
    /\ CalIdle
    /\ BatchIdle
    /\ NormIdle
    /\ EnvIdle /\ MainIdle /\ FillIdle /\ QualIdle /\ PoolIdle /\ SchedIdle /\ ChunkIdle
    /\ v_pc = {}
    /\ raw_df \in RawFrames
    /\ cleaned = <<>>
    /\ cleaned_missing = <<>>

\* fetch-stocks.py: df = clean_and_validate_data(df, ticker)
ValidateStocks ==
    /\ "stocks" \notin v_pc
    /\ cleaned' = CleanAndValidateData(raw_df)
    /\ v_pc' = v_pc \cup {"stocks"}
    /\ UNCHANGED <<raw_df, cleaned_missing>>
    /\ UNCHANGED notValid

\* fetch_missing_stocks.py: df = clean_and_validate_data(df, ticker)
ValidateMissingStocks ==
    /\ "missing" \notin v_pc
    /\ cleaned_missing' = CleanAndValidateDataMissing(raw_df)
    /\ v_pc' = v_pc \cup {"missing"}
    /\ UNCHANGED <<raw_df, cleaned>>
    /\ UNCHANGED notValid

ValidNext == ValidateStocks \/ ValidateMissingStocks

SpecValid == ValidInit /\ [][ValidNext]_vars

-----------------------------------------------------------------------------
(* Properties of the validators (SpecValid) *)

AllPresent(r) ==
    r.Open # NaN /\ r.High # NaN /\ r.Low # NaN /\ r.Close # NaN /\ r.Volume # NaN

BadValues(r) == r.Low > r.High \/ r.Close < 0 \/ r.Volume < 0

\* a validator's output against the rows it must reject: a row with all
\* fields present is in the output exactly when it is not rejected, and
\* the output holds nothing but rows of the input
RejectsExactly(out, Rejected(_)) ==
    /\ \A i \in DOMAIN raw_df :
          AllPresent(raw_df[i]) =>
              ((raw_df[i] \in Range(out)) <=> ~Rejected(raw_df[i]))
    /\ Range(out) \subseteq Range(raw_df)

\* C9 as stated: with all required fields present, both validators reject
\* a row if and only if low > high, close < 0 or volume < 0.
C9_RejectsOnlyBadValues ==
    /\ "stocks" \in v_pc => RejectsExactly(cleaned, BadValues)
    /\ "missing" \in v_pc => RejectsExactly(cleaned_missing, BadValues)

BadValuesOrPreEpoch(r) == BadValues(r) \/ r.Date < UNIX_EPOCH

\* C9 amended: fetch-stocks.py's validator rejects exactly those rows;
\* fetch_missing_stocks.py's validator rejects also the rows dated before
\* 1970-01-01.
C9_RejectsBadValuesOrPreEpoch ==
    /\ "stocks" \in v_pc => RejectsExactly(cleaned, BadValues)
    /\ "missing" \in v_pc => RejectsExactly(cleaned_missing, BadValuesOrPreEpoch)

\* both validators ran on a frame with a good row they keep and a row with
\* a negative volume they drop
C9_Witness ==
    /\ v_pc = {"stocks", "missing"}
    /\ \E i, j \in DOMAIN raw_df :
          /\ AllPresent(raw_df[i]) /\ ~BadValuesOrPreEpoch(raw_df[i])
          /\ raw_df[i] \in Range(cleaned) /\ raw_df[i] \in Range(cleaned_missing)
          /\ AllPresent(raw_df[j]) /\ raw_df[j].Volume < 0
          /\ raw_df[j].Low <= raw_df[j].High /\ raw_df[j].Close >= 0
          /\ raw_df[j] \notin Range(cleaned) /\ raw_df[j] \notin Range(cleaned_missing)

-----------------------------------------------------------------------------
(* Properties of the date chunks (SpecChunks) *)

\* C4: the chunks cut from a ticker's sorted missing dates, put end to end,
\* are the list itself (no date dropped, none twice, each chunk a contiguous
\* slice), and every chunk holds between 1 and 1000 dates.
C4_ChunksPartitionMissingDates ==
    c_pc = "done" =>
        /\ Concat(date_chunks) = missing_dates
        /\ \A k \in DOMAIN date_chunks :
               Len(date_chunks[k]) >= 1 /\ Len(date_chunks[k]) <= DATE_CHUNK_SIZE

\* a list of 2001 dates cut into chunks of 1000, 1000 and 1
C4_Witness ==
    /\ c_pc = "done"
    /\ Len(missing_dates) = 2 * DATE_CHUNK_SIZE + 1
    /\ Len(date_chunks) = 3
    /\ Len(date_chunks[3]) = 1

-----------------------------------------------------------------------------
(* Properties of the ticker groups (SpecSched) *)

\* the start date the input gives a ticker (a ticker is its position)
StartDateOf(ticker) == s_pairs[ticker][2]

UniformGroup(chunk) ==
    /\ Len(chunk[1]) <= CHUNK_SIZE
    /\ \A j \in DOMAIN chunk[1] : StartDateOf(chunk[1][j]) = chunk[2]

\* C5: every group holds only tickers of one start date, carries that
\* start date as its tag and has at most 50 tickers, whether the list is
\* grouped in one call or batch by batch.
C5_GroupsShareStartDate ==
    /\ \A i \in DOMAIN direct_chunks : UniformGroup(direct_chunks[i])
    /\ \A i \in DOMAIN batched_chunks : UniformGroup(batched_chunks[i])

\* a full group of 50 followed by a group of the same start date, beside a
\* group of another start date
C5_Witness ==
    /\ s_pc = "done"
    /\ \E i \in DOMAIN direct_chunks :
          /\ i + 1 \in DOMAIN direct_chunks
          /\ Len(direct_chunks[i][1]) = CHUNK_SIZE
          /\ direct_chunks[i + 1][2] = direct_chunks[i][2]
    /\ \E i, j \in DOMAIN direct_chunks : direct_chunks[i][2] # direct_chunks[j][2]

SameStartDate == \A i, j \in DOMAIN s_pairs : s_pairs[i][2] = s_pairs[j][2]

CeilDiv(n, g) == (n + g - 1) \div g

\* ceil(n/g) groups, each of g tickers except the last, which has the rest
FullGroupsThenRest(chunks, n) ==
    /\ Len(chunks) = CeilDiv(n, CHUNK_SIZE)
    /\ \A i \in DOMAIN chunks :
          Len(chunks[i][1]) =
              IF i < Len(chunks) THEN CHUNK_SIZE
              ELSE n - CHUNK_SIZE * (Len(chunks) - 1)

\* C6: n tickers of one start date give ceil(n/50) groups, all of 50 but
\* possibly the last, in one call and also over the batches of 100 that
\* process_in_batches cuts first.
C6_GroupCountForOneStartDate ==
    SameStartDate =>
        /\ s_pc # "input" => FullGroupsThenRest(direct_chunks, Len(s_pairs))
        /\ s_pc = "done" => FullGroupsThenRest(batched_chunks, Len(s_pairs))

\* 120 tickers of one start date: groups of 50, 50 and 20 over two batches
C6_Witness ==
    /\ s_pc = "done"
    /\ SameStartDate
    /\ Len(s_pairs) = 120
    /\ [i \in DOMAIN batched_chunks |-> Len(batched_chunks[i][1])] = <<50, 50, 20>>

-----------------------------------------------------------------------------
(* Properties of the incremental update of fill.py (SpecFill) *)

\* the run has read the table and has not inserted yet: the table is the
\* one the last updates were read from
FillReadOnly == f_pc \in {"batch", "fetching", "finish"}

\* C1: on the last-timestamp path a ticker whose last stored timestamp is
\* on or after the as-of date has an empty gap and is never requested from
\* the provider during the run.
C1_NoCallWhenUpToDate ==
    FillReadOnly =>
        \A t \in DOMAIN LastTimes(store) :
            today <= LastTimes(store)[t] =>
                \A c \in calls : t \notin Range(c.tickers)

\* C2: on the last-timestamp path every provider request for a ticker
\* starts on the day after that ticker's last stored timestamp.
C2_RequestStartsDayAfterLast ==
    FillReadOnly =>
        \A c \in calls : \A t \in Range(c.tickers) :
            c.start = LastTimes(store)[t] + 1

-----------------------------------------------------------------------------
(* Properties of the gap filling of quality.py (SpecQual) *)

\* C3: every bar fetched for a ticker's gaps and handed to the writer has
\* a date that was missing for that ticker: no date already stored for
\* the ticker is retrieved or inserted again.
C3_OnlyMissingDatesWritten ==
    \A w \in writer_input :
        w.ticker \in DOMAIN db_data => w.bar.Date \notin db_data[w.ticker].dates

\* C7: a provider or store failure on one ticker never aborts the run: the
\* run does not end with an exception, and when it ends every ticker of
\* the table has been analysed.
C7_FailureNeverAbortsRun ==
    /\ q_pc # "crashed"
    /\ q_pc = "done" => analysed = DOMAIN db_data

-----------------------------------------------------------------------------
(* Properties of the incremental update of main.py (SpecMain) *)

\* C8: a fetch that fails transiently is attempted up to three times: a
\* ticker whose provider fails on fewer than three attempts in a row is
\* not recorded as failed, and a ticker recorded as failed was attempted
\* three times.
C8_FetchRetriedUpToThreeAttempts ==
    \A t \in Universe :
        /\ t \in fetch_failed => attempts[t] = RETRY_ATTEMPTS
        /\ outage[t] \in 1..(RETRY_ATTEMPTS - 1) => t \notin fetch_failed

\* C10: no row with a null required field, with low above high or with a
\* negative volume is handed to the writer.
C10_NoMalformedRowReachesWriter ==
    \A w \in writer_input :
        /\ NaN \notin {w.bar.Open, w.bar.High, w.bar.Low, w.bar.Close, w.bar.Volume}
        /\ ~Gt(w.bar.Low, w.bar.High)
        /\ ~Lt(w.bar.Volume, 0)

-----------------------------------------------------------------------------
(* Properties of fill.py run twice in a row (SpecFillAgain) *)

\* C11: when the script is run twice in a row over an unchanged provider,
\* the second run inserts no row for a (ticker, date) the table already
\* holds, so that the table's content after it is the content before it.
C11_SecondRunInsertsNothingStored ==
    run = 2 =>
        \A r \in inserted :
            ~\E s \in run_start_store : s.ticker = r.ticker /\ s.time = r.time

-----------------------------------------------------------------------------
(* Properties of the writer of quality.py (SpecQual) *)

\* C12: a write failure (a batch the store rejects, a connection that
\* cannot be opened) stays inside the writer: no exception of the writer
\* ends the run, and every row written before the failure is still stored.
C12_WriteFailureStaysInWriter ==
    /\ q_raised # "UnboundLocalError"
    /\ \A t \in DOMAIN db_data : \A d \in db_data[t].dates :
          \E r \in store : r.ticker = t /\ r.time = d

-----------------------------------------------------------------------------
(* Properties of the startup of main.py (SpecMain) *)

\* C13: when the store cannot be reached while the run reads the last
\* timestamps at startup, the run ends there: it goes on to no fetch and
\* to no ingestion.
C13_AbortsWhenStoreUnreachable ==
    [][GetLastTimestampsError => m_pc' \notin {"fetch", "ingest"}]_vars

-----------------------------------------------------------------------------
(* Properties of the thread pools (SpecPool) *)

\* the provider requests in flight over all busy workers
RECURSIVE RequestsOf(_, _)
RequestsOf(bag, S) ==
    IF S = {} THEN 0
    ELSE LET k == CHOOSE x \in S : TRUE
         IN  k * CopiesIn(k, bag) + RequestsOf(bag, S \ {k})

InFlight == RequestsOf(p_running, BagToSet(p_running))

\* C14: at every moment the provider requests in flight, the concurrent
\* requests of a ticker group's call counted one by one, are at most the
\* cap of the pool (5 in process_batch, 20 in
\* fetch_historical_data_parallel).
C14_InFlightWithinWorkerCap == InFlight <= max_workers

-----------------------------------------------------------------------------
(* Properties of the batches of fill.py (SpecFill) *)

\* C15: batches are processed one after another, each written before the
\* next starts: while a provider call of a batch has been issued, no rows
\* of an earlier batch are still held unwritten.
C15_BatchWrittenBeforeNextStarts ==
    (f_pc = "fetching" /\ pending # DOMAIN ticker_chunks) => all_data = <<>>

-----------------------------------------------------------------------------
(* Properties of the pacing of quality.py (SpecQual) *)

\* the steps of the run that call the provider: the reference calendar of
\* a ticker, and the fetch of a chunk of missing dates
ProviderCallStep ==
    \/ AnalyzeTicker
    \/ AnalyzeTickerError
    \/ FillChunk
    \/ FillChunkInsertError
    \/ FillChunkEmpty
    \/ FillChunkFetchError
    \/ FillChunkConnectError

\* C16: every call to the provider is immediately preceded by a delay on
\* the same worker: a step that calls the provider starts where the last
\* statement run was a sleep.
C16_EveryCallAfterDelay == [][ProviderCallStep => q_slept]_vars

-----------------------------------------------------------------------------
(* Properties of the batches of main.py (SpecMain) *)

\* every ticker of the batch has been gone through and none gave a row
EmptyBatch == m_pc = "ingest" /\ batch_data = EmptyDict

\* C17: a batch whose fetches all returned zero rows is not an error: the
\* step after it writes nothing, hands nothing to the writer, and takes
\* the run to the next batch, or to its end after the last batch.
C17_EmptyBatchIsSkipped ==
    [][EmptyBatch =>
          /\ store' = store
          /\ writer_input' = writer_input
          /\ IF batch_num < Len(main_batches)
             THEN batch_num' = batch_num + 1 /\ m_pc' = "fetch"
             ELSE m_pc' = "done"]_vars

\* the first batch was requested from the provider for its ticker, gave
\* no row, and the run is at the second batch with nothing written
C17_Witness ==
    /\ batch_num = 2
    /\ m_pc = "fetch"
    /\ idx = 1
    /\ \E c \in calls : c.ticker = main_batches[1][1]
    /\ writer_input = {}

-----------------------------------------------------------------------------
(* Properties of the storage keys of fill.py (SpecFill) *)

\* C18: every row a writer sends to the store carries a ticker key without
\* the provider prefix '^', the key the other writers give that ticker.
C18_InsertedKeysHaveNoPrefix ==
    \A r \in inserted : Head(r.ticker) # "^" /\ r.ticker \in StorageKeys

-----------------------------------------------------------------------------
(* Properties of the gap detection of quality.py (SpecQual) *)

\* the first and the last date stored for a ticker
FirstStored(t) == 0 - Max({0 - d : d \in db_data[t].dates})

LastStored(t) == Max(db_data[t].dates)

\* the trading dates from the first to the last stored date of a ticker
\* that are not stored for it
ExpectedMissing(t) ==
    {d \in trading : FirstStored(t) <= d /\ d <= LastStored(t)} \ db_data[t].dates

\* C19: the missing set computed for a ticker is the set of the reference
\* trading dates between its first and its last stored date that are not
\* stored: nothing before the first stored date is flagged, and a ticker
\* that was analysed and never fetched has no such date.
C19_MissingIsTradingMinusStored ==
    /\ q_pc = "chunk" =>
          /\ Range(q_missing) = ExpectedMissing(q_ticker)
          /\ \A d \in Range(q_missing) :
                /\ FirstStored(q_ticker) <= d /\ d <= LastStored(q_ticker)
                /\ d \in trading
                /\ d \notin db_data[q_ticker].dates
    /\ \A t \in analysed :
          (~\E c \in calls : c.ticker = t) => ExpectedMissing(t) = {}

\* a ticker with two missing dates, listed after the first trading day
C19_Witness ==
    /\ q_pc = "chunk"
    /\ Len(q_missing) >= 2
    /\ \E d \in trading : d < FirstStored(q_ticker)

\* the scenario: days 1 and 2 stored, the calendar holding days 1 to 4
\* (day 0 is a holiday)
ScenarioOne(t) == db_data[t].dates = {1, 2} /\ trading = {1, 2, 3, 4}

\* a date was requested from the provider for a ticker
Requested(t, d) == \E c \in calls : c.ticker = t /\ c.start <= d /\ d < c.end

-----------------------------------------------------------------------------
(* Properties of the tickers without history of main.py (SpecMain) *)

\* C21: a ticker of the universe with no stored history is not skipped:
\* it gets the default start date and, when that date is before the as-of
\* date, the run has requested it from the provider from that date on.
C21_NoHistoryFetchedFromBackstop ==
    m_pc = "done" =>
        \A t \in Universe :
            (t \notin DOMAIN last_timestamps /\ DEFAULT_START < end_date) =>
                \E c \in calls : c.ticker = t /\ c.start = DEFAULT_START

-----------------------------------------------------------------------------
(* Properties of the normaliser of fill.py (SpecNorm) *)

\* the instant of a value of the column, in hours of UTC
UtcInstant(col, i) == col.values[i] - col.zone

\* 16:00 of the UTC calendar day of an instant
MarketCloseOfUtcDay(h) == FloorDay(h) + MARKET_HOUR

-----------------------------------------------------------------------------
(* Properties of process_in_batches over many batches (SpecBatch) *)

InsertedMessages == {"Inserted 10 batches into QuestDB.",
                     "Inserted remaining data into QuestDB."}

\* C23: a message saying that batches or data were inserted is logged
\* only when the write it follows succeeded: whenever insert_into_questdb
\* failed, no such message is logged for that write.
C23_InsertedLoggedOnlyOnSuccess ==
    \A j \in DOMAIN log :
        log[j] \in InsertedMessages =>
            j > 1 /\ log[j - 1] = InsertMessage(TRUE)

-----------------------------------------------------------------------------
(* Properties of the holiday calendar (SpecCal) *)

\* a day the market is open: a weekday that is not a holiday
IsTradingDay(d) == ~IsWeekend(d) /\ d \notin market_holidays

\* C24: for every closed day of the generated range, the next trading day
\* of its row is the earliest date strictly after it that is a weekday and
\* not a holiday, and every date strictly between the two is closed.
C24_NextTradingDayIsEarliestOpenDay ==
    \A j \in DOMAIN table_data :
        LET row == table_data[j]
        IN  /\ row.next_trading_day > row.Date
            /\ IsTradingDay(row.next_trading_day)
            /\ \A d \in (row.Date + 1)..(row.next_trading_day - 1) :
                  ~IsTradingDay(d)

-----------------------------------------------------------------------------
(* Properties of the collection of concurrent fetches (SpecCollect) *)

\* the fetches that returned rows
NonEmptyFetches == {i \in DOMAIN fetched : fetched[i] # <<>>}

\* C25: whatever the order in which the fetches of a batch complete, what
\* is returned holds exactly the tickers or groups whose fetch returned
\* rows, each once and with the rows it returned, and only the collecting
\* thread has changed the accumulator.
C25_CollectedIsNonEmptyFetches ==
    /\ mutators \subseteq {"MainThread"}
    /\ col_pc = "returned" =>
          IF col_script = "fill"
          THEN /\ Len(col_all_data) = Cardinality(NonEmptyFetches)
               /\ \A i \in NonEmptyFetches :
                     Cardinality({j \in DOMAIN col_all_data :
                                     col_all_data[j] = fetched[i]}) = 1
          ELSE /\ DOMAIN results = {FetchKey(i) : i \in NonEmptyFetches}
               /\ \A i \in NonEmptyFetches : results[FetchKey(i)] = fetched[i]

\* a batch returned whose fetches completed out of submission order, one
\* of them empty: the dict of process_batch, and the list of fill.py
\* holding the later fetch first
C25_Witness ==
    /\ col_pc = "returned"
    /\ NonEmptyFetches # {}
    /\ NonEmptyFetches # DOMAIN fetched
    /\ col_script = "fill"
    /\ Len(col_all_data) >= 2
    /\ col_all_data[1][1] > col_all_data[2][1]

-----------------------------------------------------------------------------
(* The groups of fetch_historical_data_parallel as a partition (SpecSched) *)

\* the tickers of the input, in order
InputTickers == [k \in DOMAIN s_pairs |-> s_pairs[k][1]]

\* the tickers of the groups, group after group in creation order
RECURSIVE GroupedTickers(_)
GroupedTickers(chunks) ==
    IF chunks = <<>> THEN <<>>
    ELSE GroupedTickers(SubSeq(chunks, 1, Len(chunks) - 1))
             \o chunks[Len(chunks)][1]

\* C26: the groups, concatenated in creation order, are the input ticker
\* sequence: no ticker dropped, none duplicated, the order kept, in one
\* call and over the batches of process_in_batches.
C26_GroupsConcatenateToInput ==
    /\ s_pc # "input" => GroupedTickers(direct_chunks) = InputTickers
    /\ s_pc = "done" => GroupedTickers(batched_chunks) = InputTickers

\* a list cut into at least three groups, by a change of start date and
\* by the cap of 50, the last group smaller than the cap
C26_Witness ==
    /\ s_pc = "done"
    /\ Len(direct_chunks) >= 3
    /\ \E i \in DOMAIN direct_chunks : Len(direct_chunks[i][1]) = CHUNK_SIZE
    /\ \E i \in DOMAIN direct_chunks :
          /\ i + 1 \in DOMAIN direct_chunks
          /\ direct_chunks[i][2] # direct_chunks[i + 1][2]
    /\ Len(direct_chunks[Len(direct_chunks)][1]) < CHUNK_SIZE
    /\ GroupedTickers(direct_chunks) = InputTickers

-----------------------------------------------------------------------------
(* The rows process_in_batches inserts and returns (SpecBatch) *)

\* how often a row occurs in the frames handed to insert_into_questdb
TimesInserted(row) ==
    Cardinality({<<j, p>> \in (DOMAIN insert_calls) \X (1..MaxBatches) :
                    /\ p \in DOMAIN insert_calls[j].df
                    /\ insert_calls[j].df[p] = row})

\* the rows of the batches that returned data
RowsFetched == UNION {Range(BatchFrame(k)) : k \in with_data}

\* C27: once process_in_batches has returned, the rows of every batch
\* that returned data have been passed to insert_into_questdb exactly
\* once, whether or not the number of such batches is a multiple of 10,
\* and no row is passed twice before that.
C27_EveryBatchInsertedOnce ==
    /\ \A row \in RowsFetched : TimesInserted(row) <= 1
    /\ pb_pc \in {"returned", "done"} =>
          \A row \in RowsFetched : TimesInserted(row) = 1

\* eleven batches with data: ten flushed in the loop, one after it
C27_Witness ==
    /\ pb_pc = "done"
    /\ pb_batches_processed = INSERT_EVERY + 1
    /\ Len(insert_calls) = 2
    /\ Len(insert_calls[1].df) = INSERT_EVERY
    /\ \A row \in RowsFetched : TimesInserted(row) = 1

\* C28: the frame process_in_batches returns holds every row fetched, so
\* it is non-empty whenever a batch returned data and main logs 'No data
\* fetched for any ticker.' only when no batch returned a row.
C28_ReturnHoldsEveryRowFetched ==
    pb_pc \in {"returned", "done"} =>
        /\ Range(returned) = RowsFetched
        /\ (\E j \in DOMAIN log : log[j] = "No data fetched for any ticker.")
              => with_data = {}

-----------------------------------------------------------------------------
(* Properties of the missing-ticker backfill (SpecMiss) *)

\* C29: after a run in which every missing ticker was fetched and
\* inserted, the next run computes an empty missing set and asks the
\* provider for nothing, for every ticker, those with a '^' included.
C29_SecondRunFindsNothingMissing ==
    (ms_run > 1 /\ prev_complete /\ ms_pc # "start") =>
        missing_tickers = {} /\ ms_calls = {}

-----------------------------------------------------------------------------
(* Termination of fetch_and_ingest_data (SpecLoopFair) *)

\* every ticker is in exactly one batch, and no batch is larger than
\* batch_size
BatchesPartitionTickers ==
    /\ \A k \in 1..ticker_count :
          Cardinality({<<b, i>> \in (DOMAIN loop_batches) \X (1..lp_batch_size) :
                          i \in DOMAIN loop_batches[b] /\ loop_batches[b][i] = k}) = 1
    /\ \A b \in DOMAIN loop_batches : Len(loop_batches[b]) <= lp_batch_size

\* the run has ended, every batch ended once and in order, every ticker
\* fetched or skipped once
RunEndedHavingVisitedAll ==
    /\ lp_pc = "done"
    /\ batches_visited = [b \in DOMAIN loop_batches |-> b]
    /\ visited = LoopTickers

\* C30: every call returning or raising, fetch_and_ingest_data terminates
\* after visiting every batch exactly once in order; every ticker is in
\* exactly one batch of at most batch_size tickers and is in the end
\* fetched or skipped.
C30_TerminatesAfterEveryBatch ==
    []BatchesPartitionTickers /\ <>RunEndedHavingVisitedAll

\* a run ended over five tickers in batches of two, the last batch of one
\* ticker, with a ticker skipped, a batch ingested and a batch without data
C30_Witness ==
    /\ RunEndedHavingVisitedAll
    /\ ticker_count = 5
    /\ lp_batch_size = 2
    /\ Len(loop_batches[Len(loop_batches)]) = 1
    /\ skipped # {}
    /\ Cardinality(skipped) < ticker_count

====
